---- MODULE Spec2Model ----
(***************************************************************************)
(* Speech-to-order fuzzy matching engine (FuzzyMenuMatcher) and the        *)
(* per-restaurant matcher cache used by the parse-order route and the      *)
(* Toast menu webhook.                                                     *)
(*                                                                         *)
(* Conventions.  A string that the code inspects character by character    *)
(* (utterances, tokens, modifier option names) is a sequence of one-       *)
(* character strings.  Names that the code only compares for equality      *)
(* (item, category and group names, keys) are plain strings.  Prices are   *)
(* in thousandths of a dollar and fuse.js scores in thousandths, so that   *)
(* the two-decimal roundings of the code are real roundings; arithmetic    *)
(* is exact (no binary floating point error is modelled).                  *)
(***************************************************************************)
EXTENDS Integers, Sequences, FiniteSets, TLC

(***************************************************************************)
(* Strings                                                                 *)
(***************************************************************************)
UpperCase ==
    <<"A","B","C","D","E","F","G","H","I","J","K","L","M","N","O","P","Q","R","S","T","U","V","W","X","Y","Z">>

LowerCase ==
    <<"a","b","c","d","e","f","g","h","i","j","k","l","m","n","o","p","q","r","s","t","u","v","w","x","y","z">>

Digits ==
    {"0","1","2","3","4","5","6","7","8","9"}

\* JavaScript's \s, restricted to the whitespace the model's inputs use.
Whitespace ==
    {" ", "\t"}

Range(s) ==
    {s[i] : i \in 1..Len(s)}

toLowerCaseChar(c) ==
    IF \E i \in 1..Len(UpperCase) : UpperCase[i] = c
    THEN LowerCase[CHOOSE i \in 1..Len(UpperCase) : UpperCase[i] = c]
    ELSE c

toLowerCase(s) ==
    [i \in 1..Len(s) |-> toLowerCaseChar(s[i])]

IsSpace(c) ==
    c \in Whitespace

IsAlnumLower(c) ==
    c \in Range(LowerCase) \cup Digits

\* s.replace(/\s+/g, ' ')
RECURSIVE CollapseSpaces(_)
CollapseSpaces(s) ==
    IF s = <<>> THEN <<>>
    ELSE IF IsSpace(Head(s))
         THEN IF Len(s) > 1 /\ IsSpace(s[2])
              THEN CollapseSpaces(Tail(s))
              ELSE <<" ">> \o CollapseSpaces(Tail(s))
         ELSE <<Head(s)>> \o CollapseSpaces(Tail(s))

\* s.replace(/\s+/g, '')
RemoveSpaces(s) ==
    SelectSeq(s, LAMBDA c : ~IsSpace(c))

RECURSIVE TrimLeft(_)
TrimLeft(s) ==
    IF s # <<>> /\ IsSpace(Head(s)) THEN TrimLeft(Tail(s)) ELSE s

RECURSIVE TrimRight(_)
TrimRight(s) ==
    IF s # <<>> /\ IsSpace(s[Len(s)]) THEN TrimRight(SubSeq(s, 1, Len(s) - 1)) ELSE s

\* s.trim()
Trim(s) ==
    TrimRight(TrimLeft(s))

\* s.split(' '): the pieces between single spaces; ''.split(' ') is [''].
RECURSIVE SplitOnSpace(_, _)
SplitOnSpace(s, cur) ==
    IF s = <<>> THEN <<cur>>
    ELSE IF Head(s) = " "
         THEN <<cur>> \o SplitOnSpace(Tail(s), <<>>)
         ELSE SplitOnSpace(Tail(s), Append(cur, Head(s)))

\* s.split(/\s+/)
RECURSIVE SplitOnSpaces(_, _)
SplitOnSpaces(s, cur) ==
    IF s = <<>> THEN <<cur>>
    ELSE IF IsSpace(Head(s))
         THEN <<cur>> \o SplitOnSpaces(TrimLeft(s), <<>>)
         ELSE SplitOnSpaces(Tail(s), Append(cur, Head(s)))

\* words.join(sep)
RECURSIVE Join(_, _)
Join(words, sep) ==
    IF words = <<>> THEN <<>>
    ELSE IF Len(words) = 1 THEN words[1]
    ELSE words[1] \o sep \o Join(Tail(words), sep)

FILLER_WORDS == {
    <<"a">>, <<"a","n">>, <<"t","h","e">>, <<"w","i","t","h">>, <<"a","n","d">>,
    <<"p","l","e","a","s","e">>, <<"i">>, <<"w","a","n","t">>, <<"c","a","n">>,
    <<"g","e","t">>, <<"i","l","l">>, <<"i","'","l","l">>, <<"h","a","v","e">>, <<"i","d">>,
    <<"i","'","d">>, <<"l","i","k","e">>, <<"o","f">>, <<"s","o","m","e">>, <<"o","n","e">>,
    <<"m","a","k","e">>, <<"i","t">>, <<"m","e">>, <<"g","i","v","e">>,
    <<"o","r","d","e","r">>, <<"u","m">>, <<"u","h">>, <<"y","e","a","h">>, <<"y","e","s">>,
    <<"o","k">>, <<"o","k","a","y">>, <<"s","o">>, <<"j","u","s","t">>, <<"a","l","s","o">>,
    <<"d","o">>, <<"y","o","u">>, <<"t","o">>, <<"f","o","r">>, <<"m","y">>, <<"o","n">>,
    <<"i","n">>
    }

\* speech.toLowerCase().replace(/[^a-z0-9\s'-]/g, '').replace(/\s+/g, ' ').trim()
\*   .split(' ').filter(word => !FILLER_WORDS.has(word) && word.length > 0)
\* mutant: filler words are returned like any other word
normalizeSpeech_KeepFillers(speech) ==
    LET kept(c) == IsAlnumLower(c) \/ IsSpace(c) \/ c \in {"'", "-"}
        cleaned == Trim(CollapseSpaces(SelectSeq(toLowerCase(speech), kept)))
    IN  SelectSeq(SplitOnSpace(cleaned, <<>>), LAMBDA word : Len(word) > 0)

normalizeSpeech(speech) ==
    LET kept(c) == IsAlnumLower(c) \/ IsSpace(c) \/ c \in {"'", "-"}
        cleaned == Trim(CollapseSpaces(SelectSeq(toLowerCase(speech), kept)))
    IN  SelectSeq(SplitOnSpace(cleaned, <<>>),
                  LAMBDA word : word \notin FILLER_WORDS /\ Len(word) > 0)

(***************************************************************************)
(* Similarity primitive                                                    *)
(***************************************************************************)
Min2(x, y) ==
    IF x <= y THEN x ELSE y

Max2(x, y) ==
    IF x >= y THEN x ELSE y

\* One row of the dynamic-programming table: dp[i][0..n] from dp[i-1][0..n].
\* Rows are sequences indexed 1..n+1 (column j is element j+1).  Each cell and
\* each row is computed before the next one is started (the length tests
\* always succeed).
\* mutant: a substitution is not offered where the characters differ
RECURSIVE levenshteinRow_NoSubstitution(_, _, _, _, _)
levenshteinRow_NoSubstitution(prev, ai, b, j, row) ==
    IF j > Len(b) THEN row
    ELSE LET cell == IF ai = b[j]
                     THEN prev[j]
                     ELSE 1 + Min2(prev[j + 1], row[j])
             next == Append(row, cell)
         IN  IF Len(next) = j + 1
             THEN levenshteinRow_NoSubstitution(prev, ai, b, j + 1, next)
             ELSE next

RECURSIVE levenshteinRow(_, _, _, _, _)
levenshteinRow(prev, ai, b, j, row) ==
    IF j > Len(b) THEN row
    ELSE LET cell == IF ai = b[j]
                     THEN prev[j]
                     ELSE 1 + Min2(prev[j + 1], Min2(row[j], prev[j]))
             next == Append(row, cell)
         IN  IF Len(next) = j + 1
             THEN levenshteinRow(prev, ai, b, j + 1, next)
             ELSE next

RECURSIVE levenshteinRows(_, _, _, _)
levenshteinRows(a, b, i, prev) ==
    IF i > Len(a) THEN prev
    ELSE LET row == levenshteinRow(prev, a[i], b, 1, <<i>>)
         IN  IF Len(row) = Len(prev)
             THEN levenshteinRows(a, b, i + 1, row)
             ELSE row

levenshtein(a, b) ==
    levenshteinRows(a, b, 1, [j \in 1..(Len(b) + 1) |-> j - 1])[Len(b) + 1]

\* mutant: words of up to 8 characters get the tolerance of long words
fuzzyWordMatch_Lenient(a, b) ==
    IF a = b THEN TRUE
    ELSE LET distance == levenshtein(a, b)
             maxLen == Max2(Len(a), Len(b))
         IN  IF maxLen <= 3 THEN distance <= 0
             ELSE IF maxLen <= 5 THEN distance <= 1
             ELSE distance <= 3

fuzzyWordMatch(a, b) ==
    IF a = b THEN TRUE
    ELSE LET distance == levenshtein(a, b)
             maxLen == Max2(Len(a), Len(b))
         IN  IF maxLen <= 3 THEN distance <= 0
             ELSE IF maxLen <= 5 THEN distance <= 1
             ELSE IF maxLen <= 8 THEN distance <= 2
             ELSE distance <= 3

(***************************************************************************)
(* State                                                                   *)
(***************************************************************************)
VARIABLES
    fuseScore,      \* fuse.js scoring: <<item name, item description, query>> -> score
    matcherCache,   \* matcherCache: key -> FuzzyMenuMatcher
    upstreamMenu,   \* the menu the menu-resolution service currently returns, per key
    requests,       \* in-flight POST /parse-order requests
    webhook,        \* the POST /toast-menu-webhook handler
    built,          \* number of FuzzyMenuMatcher objects constructed so far
    history,        \* what the last completed operation did (observation only)
    epoch,          \* per key, what happened since its last invalidation (observation only)
    pMenu,          \* single parseOrder call: menu the matcher is built from
    pSpeech,        \* single parseOrder call: utterance
    pOut,           \* single parseOrder call: outcome
    mItem,          \* single matchModifiers call: the matched menu item
    mTokens,        \* single matchModifiers call: the remaining tokens
    mOut,           \* single matchModifiers call: outcome
    wA,             \* single fuzzyWordMatch or levenshtein call: first string
    wB,             \* single fuzzyWordMatch or levenshtein call: second string
    wOut,           \* single fuzzyWordMatch or levenshtein call: outcome
    nOut            \* single normalizeSpeech call: outcome

vars ==
    <<fuseScore, matcherCache, upstreamMenu, requests, webhook, built, history, epoch,
      pMenu, pSpeech, pOut,
                              mItem, mTokens, mOut, wA, wB, wOut, nOut>>

(***************************************************************************)
(* Thresholds of the matcher, in thousandths                               *)
(***************************************************************************)
STRONG_MATCH ==
    300

ACCEPT_CEILING ==
    500

LENGTH_BONUS ==
    20

MAX_ALTERNATIVES ==
    3

MAX_MODIFIER_WINDOW ==
    4

\* fuse.js reports no result for this item
NoHit ==
    -1

(***************************************************************************)
(* Menu index                                                              *)
(***************************************************************************)
\* flattenMenu: iterating an undefined menu, categories or items throws a
\* TypeError; `description || ''` and `modifiers || []` fill the gaps.
RECURSIVE flattenItems(_, _)
flattenItems(category, k) ==
    IF k > Len(category.items) THEN <<>>
    ELSE LET item == category.items[k]
         IN  <<[name |-> item.name,
                price |-> item.price,
                description |-> IF item.hasDescription THEN item.description ELSE "",
                category |-> category.name,
                modifiers |-> IF item.hasModifiers THEN item.modifiers ELSE <<>>]>>
             \o flattenItems(category, k + 1)

RECURSIVE flattenCategories(_, _)
flattenCategories(categories, k) ==
    IF k > Len(categories) THEN [threw |-> FALSE, items |-> <<>>]
    ELSE IF ~categories[k].hasItems THEN [threw |-> TRUE, items |-> <<>>]
    ELSE LET rest == flattenCategories(categories, k + 1)
         IN  [threw |-> rest.threw,
              items |-> IF rest.threw THEN <<>>
                        ELSE flattenItems(categories[k], 1) \o rest.items]

flattenMenu(menu) ==
    IF ~menu.defined \/ ~menu.hasCategories
    THEN [threw |-> TRUE, items |-> <<>>]
    ELSE flattenCategories(menu.categories, 1)

\* new FuzzyMenuMatcher(menu): the flattened items and the fuse.js index over
\* them.  `id` is the identity of the constructed object.
NewFuzzyMenuMatcher(menu, id) ==
    LET flat == flattenMenu(menu)
    IN  [threw |-> flat.threw, id |-> id, allItems |-> flat.items, fuseIndex |-> flat.items]

fuseItemScore(item, query) ==
    LET k == <<item.name, item.description, query>>
    IN  IF k \in DOMAIN fuseScore THEN fuseScore[k] ELSE NoHit

\* mutant: the results come worst first
fuseSearch_Descending(fuseIndex, query) ==
    LET hits == {i \in 1..Len(fuseIndex) : fuseItemScore(fuseIndex[i], query) # NoHit}
        sc(i) == fuseItemScore(fuseIndex[i], query)
        before(i, j) == sc(i) > sc(j) \/ (sc(i) = sc(j) /\ i < j)
        rank(i) == 1 + Cardinality({j \in hits : before(j, i)})
    IN  [p \in 1..Cardinality(hits) |->
            LET i == CHOOSE x \in hits : rank(x) = p
            IN  [item |-> fuseIndex[i], score |-> sc(i), refIndex |-> i]]

\* fuseIndex.search(query) with includeScore: the items fuse.js reports, in
\* ascending score order, equal scores in index order (fuse.js's default sortFn).
fuseSearch(fuseIndex, query) ==
    LET hits == {i \in 1..Len(fuseIndex) : fuseItemScore(fuseIndex[i], query) # NoHit}
        sc(i) == fuseItemScore(fuseIndex[i], query)
        before(i, j) == sc(i) < sc(j) \/ (sc(i) = sc(j) /\ i < j)
        rank(i) == 1 + Cardinality({j \in hits : before(j, i)})
    IN  [p \in 1..Cardinality(hits) |->
            LET i == CHOOSE x \in hits : rank(x) = p
            IN  [item |-> fuseIndex[i], score |-> sc(i), refIndex |-> i]]

(***************************************************************************)
(* Item matcher, phase 2                                                   *)
(***************************************************************************)
\* The two nested loops of findBestSubPhraseMatch.  st.best is <<>> for null;
\* st.examined lists the windows searched, <<start, len>>, in order.
\* mutant: shorter windows are searched even after a strong match
RECURSIVE subPhraseLoop_NoBreak(_, _, _, _, _)
subPhraseLoop_NoBreak(fuseIndex, tokens, len, start, st) ==
    IF len < 1 THEN st
    ELSE IF start > Len(tokens) - len
    THEN subPhraseLoop_NoBreak(fuseIndex, tokens, len - 1, 0, st)
    ELSE LET subTokens == SubSeq(tokens, start + 1, start + len)
             results == fuseSearch(fuseIndex, Join(subTokens, <<" ">>))
             adjustedScore == results[1].score - (len * LENGTH_BONUS)
             take == results # <<>> /\ (st.best = <<>> \/ adjustedScore < st.best[1].score)
         IN  subPhraseLoop_NoBreak(fuseIndex, tokens, len, start + 1,
                 [best |-> IF take
                           THEN <<[item |-> results[1].item,
                                   score |-> Max2(0, adjustedScore),
                                   usedTokens |-> subTokens]>>
                           ELSE st.best,
                  examined |-> Append(st.examined, <<start, len>>)])

RECURSIVE subPhraseLoop(_, _, _, _, _)
subPhraseLoop(fuseIndex, tokens, len, start, st) ==
    IF len < 1 THEN st
    ELSE IF start > Len(tokens) - len
    THEN IF st.best # <<>> /\ st.best[1].score < STRONG_MATCH
         THEN st
         ELSE subPhraseLoop(fuseIndex, tokens, len - 1, 0, st)
    ELSE LET subTokens == SubSeq(tokens, start + 1, start + len)
             results == fuseSearch(fuseIndex, Join(subTokens, <<" ">>))
             adjustedScore == results[1].score - (len * LENGTH_BONUS)
             take == results # <<>> /\ (st.best = <<>> \/ adjustedScore < st.best[1].score)
         IN  subPhraseLoop(fuseIndex, tokens, len, start + 1,
                 [best |-> IF take
                           THEN <<[item |-> results[1].item,
                                   score |-> Max2(0, adjustedScore),
                                   usedTokens |-> subTokens]>>
                           ELSE st.best,
                  examined |-> Append(st.examined, <<start, len>>)])

findBestSubPhraseMatch(fuseIndex, tokens) ==
    subPhraseLoop(fuseIndex, tokens, Len(tokens), 0, [best |-> <<>>, examined |-> <<>>])

(***************************************************************************)
(* Modifier matcher                                                        *)
(***************************************************************************)
\* option.name.toLowerCase().replace(/[^a-z0-9\s]/g, '').trim()
normalizeOptionName(name) ==
    Trim(SelectSeq(toLowerCase(name), LAMBDA c : IsAlnumLower(c) \/ IsSpace(c)))

RECURSIVE groupOptions(_, _)
groupOptions(group, k) ==
    IF k > Len(group.options) THEN <<>>
    ELSE <<[group |-> group,
            option |-> group.options[k],
            normalizedName |-> normalizeOptionName(group.options[k].name),
            nameTokens |-> SplitOnSpaces(normalizeOptionName(group.options[k].name), <<>>)]>>
         \o groupOptions(group, k + 1)

\* the flat list of every (group, option) pair of the item, in declaration order
RECURSIVE allOptionsOf(_, _)
allOptionsOf(modifiers, k) ==
    IF k > Len(modifiers) THEN <<>>
    ELSE groupOptions(modifiers[k], 1) \o allOptionsOf(modifiers, k + 1)

\* mutant: a default option is taken whatever the window says
optionMatches_DefaultWins(candidate, candidateNoSpaces, opt) ==
    LET optNoSpaces == RemoveSpaces(opt.normalizedName)
    IN  \/ candidate = opt.normalizedName
        \/ candidateNoSpaces = optNoSpaces
        \/ fuzzyWordMatch(candidate, opt.normalizedName)
        \/ fuzzyWordMatch(candidateNoSpaces, optNoSpaces)
        \/ opt.option.isDefault

optionMatches(candidate, candidateNoSpaces, opt) ==
    LET optNoSpaces == RemoveSpaces(opt.normalizedName)
    IN  \/ candidate = opt.normalizedName
        \/ candidateNoSpaces = optNoSpaces
        \/ fuzzyWordMatch(candidate, opt.normalizedName)
        \/ fuzzyWordMatch(candidateNoSpaces, optNoSpaces)

\* mutant: the single-select rule is not applied
RECURSIVE firstAcceptedOption_AnyGroup(_, _, _, _, _)
firstAcceptedOption_AnyGroup(allOptions, k, candidate, candidateNoSpaces, matched) ==
    IF k > Len(allOptions) THEN 0
    ELSE IF optionMatches(candidate, candidateNoSpaces, allOptions[k])
         THEN k
         ELSE firstAcceptedOption_AnyGroup(allOptions, k + 1, candidate, candidateNoSpaces,
                                           matched)

\* `for (const opt of allOptions)`: the index of the option that is pushed for
\* this window, 0 when the loop ends without a push.
RECURSIVE firstAcceptedOption(_, _, _, _, _)
firstAcceptedOption(allOptions, k, candidate, candidateNoSpaces, matched) ==
    IF k > Len(allOptions) THEN 0
    ELSE LET opt == allOptions[k]
             alreadyMatchedInGroup ==
                 \E i \in 1..Len(matched) : matched[i].groupName = opt.group.name
         IN  IF /\ optionMatches(candidate, candidateNoSpaces, opt)
                /\ ~(alreadyMatchedInGroup /\ ~opt.group.multiSelect)
             THEN k
             ELSE firstAcceptedOption(allOptions, k + 1, candidate, candidateNoSpaces, matched)

\* mutant: a window is tried even when some of its tokens are already used
RECURSIVE modifierLoop_Overlapping(_, _, _, _, _)
modifierLoop_Overlapping(remainingTokens, allOptions, len, start, st) ==
    IF len < 1 THEN st
    ELSE IF start > Len(remainingTokens) - len
    THEN modifierLoop_Overlapping(remainingTokens, allOptions, len - 1, 0, st)
    ELSE LET indices == start..(start + len - 1)
             candidateTokens == SubSeq(remainingTokens, start + 1, start + len)
             k == firstAcceptedOption(allOptions, 1, Join(candidateTokens, <<" ">>),
                                      Join(candidateTokens, <<>>), st.matched)
         IN  IF k = 0
             THEN modifierLoop_Overlapping(remainingTokens, allOptions, len, start + 1, st)
             ELSE modifierLoop_Overlapping(remainingTokens, allOptions, len, start + 1,
                     [matched |-> Append(st.matched,
                                     [groupName |-> allOptions[k].group.name,
                                      optionName |-> allOptions[k].option.name,
                                      optionPrice |-> allOptions[k].option.price]),
                      used |-> st.used \cup indices,
                      windows |-> Append(st.windows, <<start, len>>)])

\* The window loops of matchModifiers.  st.used holds the 0-based token indices
\* consumed; st.windows the accepted windows <<start, len>>, parallel to st.matched.
RECURSIVE modifierLoop(_, _, _, _, _)
modifierLoop(remainingTokens, allOptions, len, start, st) ==
    IF len < 1 THEN st
    ELSE IF start > Len(remainingTokens) - len
    THEN modifierLoop(remainingTokens, allOptions, len - 1, 0, st)
    ELSE LET indices == start..(start + len - 1)
             candidateTokens == SubSeq(remainingTokens, start + 1, start + len)
             k == firstAcceptedOption(allOptions, 1, Join(candidateTokens, <<" ">>),
                                      Join(candidateTokens, <<>>), st.matched)
         IN  IF indices \cap st.used # {} \/ k = 0
             THEN modifierLoop(remainingTokens, allOptions, len, start + 1, st)
             ELSE modifierLoop(remainingTokens, allOptions, len, start + 1,
                     [matched |-> Append(st.matched,
                                     [groupName |-> allOptions[k].group.name,
                                      optionName |-> allOptions[k].option.name,
                                      optionPrice |-> allOptions[k].option.price]),
                      used |-> st.used \cup indices,
                      windows |-> Append(st.windows, <<start, len>>)])

matchModifiers(remainingTokens, item) ==
    IF Len(remainingTokens) = 0 \/ Len(item.modifiers) = 0
    THEN [matched |-> <<>>, unmatchedTokens |-> remainingTokens, windows |-> <<>>]
    ELSE LET st == modifierLoop(remainingTokens, allOptionsOf(item.modifiers, 1),
                                Min2(Len(remainingTokens), MAX_MODIFIER_WINDOW), 0,
                                [matched |-> <<>>, used |-> {}, windows |-> <<>>])
             kept == {i \in 1..Len(remainingTokens) : (i - 1) \notin st.used}
             \* remainingTokens.filter((_, i) => !usedTokenIndices.has(i))
             nth(p) == CHOOSE i \in kept : Cardinality({j \in kept : j < i}) = p - 1
         IN  [matched |-> st.matched,
              unmatchedTokens |-> [p \in 1..Cardinality(kept) |-> remainingTokens[nth(p)]],
              windows |-> st.windows]

(***************************************************************************)
(* parseOrder                                                              *)
(***************************************************************************)
ERR_EMPTY ==
    "No meaningful words found in speech"

ERR_WEAK ==
    "No strong match found. Did you mean one of the alternatives?"

ERR_NONE ==
    "No matching menu item found"

\* Math.round((1 - score) * 100) / 100, in hundredths
confidenceOf(score) ==
    (1000 - score + 5) \div 10

\* Math.round(amount * 100) / 100, in thousandths of a dollar
roundToCents(amount) ==
    10 * ((amount + 5) \div 10)

\* mutant: negative price deltas are left out of the total
RECURSIVE sumPrices_NoDiscount(_)
sumPrices_NoDiscount(matchedModifiers) ==
    IF matchedModifiers = <<>> THEN 0
    ELSE Max2(0, Head(matchedModifiers).optionPrice)
             + sumPrices_NoDiscount(Tail(matchedModifiers))

RECURSIVE sumPrices(_)
sumPrices(matchedModifiers) ==
    IF matchedModifiers = <<>> THEN 0
    ELSE Head(matchedModifiers).optionPrice + sumPrices(Tail(matchedModifiers))

\* mutant: one alternative too few
toAlternatives_TopTwo(results) ==
    [p \in 1..Min2(Len(results), MAX_ALTERNATIVES - 1) |->
        [name |-> results[p].item.name,
         confidence |-> (1000 - results[p].score + 5) \div 10,
         category |-> results[p].item.category]]

\* results.slice(0, 3).map(r => ({name, confidence, category}))
toAlternatives(results) ==
    [p \in 1..Min2(Len(results), MAX_ALTERNATIVES) |->
        [name |-> results[p].item.name,
         confidence |-> confidenceOf(results[p].score),
         category |-> results[p].item.category]]

\* tokens.filter(t => !usedTokensForItem.includes(t))
remainingTokensOf(tokens, usedTokensForItem) ==
    SelectSeq(tokens, LAMBDA t : \A i \in 1..Len(usedTokensForItem) : usedTokensForItem[i] # t)

\* mutant: the groups already matched are not filtered out
remainingRequiredOf_Unfiltered(item, matchedModifiers) ==
    LET open == SelectSeq(item.modifiers, LAMBDA g : g.required)
    IN  [p \in 1..Len(open) |->
            [groupName |-> open[p].name,
             required |-> open[p].required,
             options |-> [q \in 1..Len(open[p].options) |->
                             [name |-> open[p].options[q].name,
                              price |-> open[p].options[q].price,
                              isDefault |-> open[p].options[q].isDefault]]]]

\* bestItem.modifiers.filter(g => g.required && !matchedGroupNames.has(g.name)).map(...)
remainingRequiredOf(item, matchedModifiers) ==
    LET matchedGroupNames == {matchedModifiers[i].groupName : i \in 1..Len(matchedModifiers)}
        open == SelectSeq(item.modifiers,
                          LAMBDA g : g.required /\ g.name \notin matchedGroupNames)
    IN  [p \in 1..Len(open) |->
            [groupName |-> open[p].name,
             required |-> open[p].required,
             options |-> [q \in 1..Len(open[p].options) |->
                             [name |-> open[p].options[q].name,
                              price |-> open[p].options[q].price,
                              isDefault |-> open[p].options[q].isDefault]]]]

\* mutant: the empty-token check never fires
noMeaningfulWords_Skipped(tokens) ==
    Len(tokens) < 0

\* if (tokens.length === 0)
noMeaningfulWords(tokens) ==
    Len(tokens) = 0

\* mutant: the comparison with the strong-match threshold is inverted
isStrongFullMatch_Inverted(fullResults) ==
    Len(fullResults) > 0 /\ fullResults[1].score > STRONG_MATCH

\* if (fullResults.length > 0 && (fullResults[0].score ?? 1) < 0.3)
isStrongFullMatch(fullResults) ==
    Len(fullResults) > 0 /\ fullResults[1].score < STRONG_MATCH

\* mutant: a score of exactly 0.5 is rejected
noGoodMatch_Strict(found, bestScore) ==
    ~found \/ bestScore >= ACCEPT_CEILING

\* if (!bestItem || bestScore > 0.5)
noGoodMatch(found, bestScore) ==
    ~found \/ bestScore > ACCEPT_CEILING

\* alternatives.length > 0 ? '...Did you mean one of the alternatives?' : 'No matching...'
\* mutant: without alternatives the failure carries an empty message
noMatchError_Blank(alternatives) ==
    IF Len(alternatives) > 0 THEN ERR_WEAK ELSE ""

noMatchError(alternatives) ==
    IF Len(alternatives) > 0 THEN ERR_WEAK ELSE ERR_NONE

\* One run of parseOrder on a constructed matcher.  `result` is the returned
\* ParseOrderResult (match and error are <<>> when null / absent); the other
\* fields record what the run did: which phase chose the item (0: none),
\* the queries given to fuseIndex.search in order, and the intermediate values.
parseOrderRun(matcher, speech) ==
    LET tokens == normalizeSpeech(speech)
        cleanedSpeech == Join(tokens, <<" ">>)
        fullResults == fuseSearch(matcher.fuseIndex, cleanedSpeech)
        strong == isStrongFullMatch(fullResults)
        sub == findBestSubPhraseMatch(matcher.fuseIndex, tokens)
        subPhraseMatch == sub.best
        found == strong \/ subPhraseMatch # <<>>
        bestItem == IF strong THEN fullResults[1].item ELSE subPhraseMatch[1].item
        bestScore == IF strong THEN fullResults[1].score
                     ELSE IF subPhraseMatch # <<>> THEN subPhraseMatch[1].score
                     ELSE 1000
        usedTokensForItem == IF strong THEN tokens
                             ELSE IF subPhraseMatch # <<>> THEN subPhraseMatch[1].usedTokens
                             ELSE <<>>
        allResults == IF ~strong /\ subPhraseMatch # <<>>
                      THEN fuseSearch(matcher.fuseIndex, Join(usedTokensForItem, <<" ">>))
                      ELSE fullResults
        altSource == IF Len(allResults) > 0 THEN allResults ELSE fullResults
        windowQueries == [p \in 1..Len(sub.examined) |->
                            Join(SubSeq(tokens, sub.examined[p][1] + 1,
                                        sub.examined[p][1] + sub.examined[p][2]), <<" ">>)]
        searches == <<cleanedSpeech>>
                    \o (IF strong THEN <<>> ELSE windowQueries)
                    \o (IF ~strong /\ subPhraseMatch # <<>>
                        THEN <<Join(usedTokensForItem, <<" ">>)>> ELSE <<>>)
        remainingTokens == remainingTokensOf(tokens, usedTokensForItem)
        mods == matchModifiers(remainingTokens, bestItem)
        others == SelectSeq(altSource, LAMBDA r : r.item.name # bestItem.name)
    IN  IF noMeaningfulWords(tokens)
        THEN [result |-> [success |-> FALSE, match |-> <<>>, alternativeMatches |-> <<>>,
                          error |-> <<ERR_EMPTY>>],
              tokens |-> tokens, phase |-> 0, searches |-> <<>>, examined |-> <<>>,
              bestScore |-> 1000, usedTokensForItem |-> <<>>, remainingTokens |-> <<>>,
              unmatchedTokens |-> <<>>, windows |-> <<>>, fullResults |-> <<>>,
              allResults |-> <<>>]
        ELSE IF noGoodMatch(found, bestScore)
        THEN [result |-> [success |-> FALSE, match |-> <<>>,
                          alternativeMatches |-> toAlternatives(altSource),
                          error |-> <<noMatchError(toAlternatives(altSource))>>],
              tokens |-> tokens, phase |-> 0, searches |-> searches,
              examined |-> IF strong THEN <<>> ELSE sub.examined,
              bestScore |-> bestScore, usedTokensForItem |-> usedTokensForItem,
              remainingTokens |-> <<>>, unmatchedTokens |-> <<>>, windows |-> <<>>,
              fullResults |-> fullResults, allResults |-> allResults]
        ELSE [result |->
                 [success |-> TRUE,
                  match |-> <<[item |-> [name |-> bestItem.name, price |-> bestItem.price,
                                         category |-> bestItem.category,
                                         description |-> bestItem.description],
                               confidence |-> confidenceOf(bestScore),
                               matchedModifiers |-> mods.matched,
                               remainingRequiredModifiers |->
                                   remainingRequiredOf(bestItem, mods.matched),
                               calculatedPrice |->
                                   roundToCents(bestItem.price + sumPrices(mods.matched))]>>,
                  alternativeMatches |-> toAlternatives(others),
                  error |-> <<>>],
              tokens |-> tokens, phase |-> IF strong THEN 1 ELSE 2, searches |-> searches,
              examined |-> IF strong THEN <<>> ELSE sub.examined,
              bestScore |-> bestScore, usedTokensForItem |-> usedTokensForItem,
              remainingTokens |-> remainingTokens, unmatchedTokens |-> mods.unmatchedTokens,
              windows |-> mods.windows, fullResults |-> fullResults,
              allResults |-> allResults]

\* mutant: parseOrder takes the matched item out of the matcher's item list
matcherAfterParseOrder_Consuming(matcher, speech) ==
    LET result == parseOrderRun(matcher, speech).result
    IN  IF result.success
        THEN [matcher EXCEPT !.allItems =
                 SelectSeq(@, LAMBDA it : it.name # result.match[1].item.name)]
        ELSE matcher

\* The matcher object once parseOrder(speech) has returned: parseOrder,
\* findBestSubPhraseMatch and matchModifiers read this.allItems and
\* this.fuseIndex and assign to locals only.
matcherAfterParseOrder(matcher, speech) ==
    matcher

\* Placeholder where no parseOrder run exists (nothing called yet, or the
\* constructor threw before parseOrder could be called).
NoRun ==
    [result |-> [success |-> FALSE, match |-> <<>>, alternativeMatches |-> <<>>,
                 error |-> <<>>],
     tokens |-> <<>>, phase |-> 0, searches |-> <<>>, examined |-> <<>>,
     bestScore |-> 1000, usedTokensForItem |-> <<>>, remainingTokens |-> <<>>,
     unmatchedTokens |-> <<>>, windows |-> <<>>, fullResults |-> <<>>, allResults |-> <<>>]

parseOrder(matcher, speech) ==
    parseOrderRun(matcher, speech).result

\* new FuzzyMenuMatcher(menu).parseOrder(speech): threw is TRUE when the
\* constructor raises instead of returning.
buildAndParse(menu, speech) ==
    LET matcher == NewFuzzyMenuMatcher(menu, 0)
    IN  IF matcher.threw
        THEN [done |-> TRUE, threw |-> TRUE, run |-> NoRun]
        ELSE [done |-> TRUE, threw |-> FALSE, run |-> parseOrderRun(matcher, speech)]

(***************************************************************************)
(* Matcher cache                                                           *)
(***************************************************************************)
Restrict(f, S) ==
    [k \in S |-> f[k]]

\* mutant: a cached matcher is handed out once and dropped from the cache
getOrCreate_EvictOnHit(cache, phoneNumber, menu, id) ==
    IF phoneNumber \in DOMAIN cache
    THEN [cache |-> Restrict(cache, DOMAIN cache \ {phoneNumber}),
          matcher |-> cache[phoneNumber], hit |-> TRUE, threw |-> FALSE]
    ELSE [cache |-> [k \in DOMAIN cache \cup {phoneNumber} |->
                        IF k = phoneNumber THEN NewFuzzyMenuMatcher(menu, id) ELSE cache[k]],
          matcher |-> NewFuzzyMenuMatcher(menu, id), hit |-> FALSE, threw |-> FALSE]

\* mutant: the cache is never consulted, every call constructs and stores
getOrCreate_AlwaysBuild(cache, phoneNumber, menu, id) ==
    [cache |-> [k \in DOMAIN cache \cup {phoneNumber} |->
                   IF k = phoneNumber THEN NewFuzzyMenuMatcher(menu, id) ELSE cache[k]],
     matcher |-> NewFuzzyMenuMatcher(menu, id), hit |-> FALSE, threw |-> FALSE]

\* FuzzyMenuMatcher.getOrCreate(phoneNumber, menu) on cache `cache`; `id` is the
\* identity a newly constructed matcher gets.  When the constructor throws,
\* nothing is stored.
getOrCreate(cache, phoneNumber, menu, id) ==
    IF phoneNumber \in DOMAIN cache
    THEN [cache |-> cache, matcher |-> cache[phoneNumber], hit |-> TRUE, threw |-> FALSE]
    ELSE LET matcher == NewFuzzyMenuMatcher(menu, id)
         IN  IF matcher.threw
             THEN [cache |-> cache, matcher |-> matcher, hit |-> FALSE, threw |-> TRUE]
             ELSE [cache |-> [k \in DOMAIN cache \cup {phoneNumber} |->
                                 IF k = phoneNumber THEN matcher ELSE cache[k]],
                   matcher |-> matcher, hit |-> FALSE, threw |-> FALSE]

\* mutant: the test for the argument is inverted
clearCache_Inverted(cache, hasArg, phoneNumber) ==
    IF ~(hasArg /\ phoneNumber # "")
    THEN cache
    ELSE Restrict(cache, {})

\* FuzzyMenuMatcher.clearCache(phoneNumber?): hasArg is FALSE for a call
\* without argument; an empty string is falsy like undefined.
clearCache(cache, hasArg, phoneNumber) ==
    IF hasArg /\ phoneNumber # ""
    THEN Restrict(cache, DOMAIN cache \ {phoneNumber})
    ELSE Restrict(cache, {})

(***************************************************************************)
(* Inputs                                                                  *)
(***************************************************************************)
Option(name, price, isDefault) ==
    [name |-> name, price |-> price, isDefault |-> isDefault]

Group(name, required, multiSelect, options) ==
    [name |-> name, required |-> required, minSelections |-> IF required THEN 1 ELSE 0,
     maxSelections |-> IF multiSelect THEN 999 ELSE 1, multiSelect |-> multiSelect,
     options |-> options]

\* a menu item as the menu-resolution service delivers it; description and
\* modifiers may be absent
RawItem(name, price, hasDescription, description, hasModifiers, modifiers) ==
    [name |-> name, price |-> price, hasDescription |-> hasDescription,
     description |-> description, hasModifiers |-> hasModifiers, modifiers |-> modifiers]

Category(name, hasItems, items) ==
    [name |-> name, hasItems |-> hasItems, items |-> items]

Menu(categories) ==
    [defined |-> TRUE, hasCategories |-> TRUE, categories |-> categories]

SizeGroup ==
    Group("Size", TRUE, FALSE,
          <<Option(<<"S","m","a","l","l">>, 0, TRUE), Option(<<"L","a","r","g","e">>, 500, FALSE)>>)

ExtrasGroup ==
    Group("Extras", FALSE, TRUE,
          <<Option(<<"I","c","e">>, 0, FALSE), Option(<<"L","i","m","e">>, 254, FALSE)>>)

Cola ==
    RawItem("Cola", 1990, FALSE, "", TRUE, <<SizeGroup, ExtrasGroup>>)

\* the same item after a price change upstream
ColaRepriced ==
    RawItem("Cola", 2490, FALSE, "", TRUE, <<SizeGroup, ExtrasGroup>>)

\* a price with a fraction of a cent
Cocoa ==
    RawItem("Cocoa", 2494, TRUE, "hot", FALSE, <<>>)

MenuUndefined ==
    [defined |-> FALSE, hasCategories |-> FALSE, categories |-> <<>>]

MenuNoCategories ==
    [defined |-> TRUE, hasCategories |-> FALSE, categories |-> <<>>]

MenuCategoryWithoutItems ==
    Menu(<<Category("Drinks", TRUE, <<Cola>>), Category("Specials", FALSE, <<>>)>>)

MenuZeroCategories ==
    Menu(<<>>)

MenuZeroItems ==
    Menu(<<Category("Drinks", TRUE, <<>>)>>)

MenuDrinks ==
    Menu(<<Category("Drinks", TRUE, <<Cola>>), Category("Hot", TRUE, <<Cocoa>>)>>)

MenuRepriced ==
    Menu(<<Category("Drinks", TRUE, <<ColaRepriced>>)>>)

ColaDiet ==
    RawItem("Cola", 2090, TRUE, "diet", FALSE, <<>>)

Cider ==
    RawItem("Cider", 3000, FALSE, "", TRUE, <<ExtrasGroup>>)

\* four items, two of them with the same name
MenuFour ==
    Menu(<<Category("Drinks", TRUE, <<Cola, Cocoa, ColaDiet, Cider>>)>>)

\* "missing or empty" menu snapshots
UnavailableMenus ==
    {MenuUndefined, MenuNoCategories, MenuCategoryWithoutItems, MenuZeroCategories,
     MenuZeroItems}

ParseMenus ==
    UnavailableMenus \cup {MenuDrinks, MenuRepriced, MenuFour}

Utterances ==
    {<<>>, <<"u","m">>, <<"?","!">>, <<"U","m",","," ","y","e","a","h"," ","p","l","e","a","s","e">>, <<"C","o","l","a","!">>, <<"a"," ","c","o","c","o","a">>, <<"c","o","l","a"," ","l","a","r","g","e">>,
     <<"L","a","r","g","e"," "," ","c","o","l","a">>, <<"c","o","l","a"," ","c","o","l","a">>}

\* bound on the (item text, query) pairs whose scores are enumerated for one call
MaxOracleCells ==
    6

\* scores fuse.js may give an item for a query, on both sides of each threshold
ScoreVals ==
    {NoHit, 120, 310, 520, 700}

(***************************************************************************)
(* A single parseOrder call on a freshly built matcher                     *)
(***************************************************************************)
\* the queries parseOrder can give to the index for these tokens
windowQueriesOf(tokens) ==
    {Join(SubSeq(tokens, i, j), <<" ">>) : i \in 1..Len(tokens), j \in 1..Len(tokens)}
        \ {<<>>}

\* the <<item name, item description, query>> triples fuse.js scores for the
\* items of the menus and the queries of the utterances
oracleDomain(menus, speeches) ==
    LET texts == UNION {{<<it.name, it.description>> :
                            it \in Range(flattenMenu(m).items)} : m \in menus}
        queries == UNION {windowQueriesOf(normalizeSpeech(u)) : u \in speeches}
    IN  {<<x[1], x[2], q>> : x \in texts, q \in queries}

\* every scoring fuse.js could have for them
OraclesFor(menus, speeches) ==
    [oracleDomain(menus, speeches) -> ScoreVals]

IdleRequest ==
    [pc |-> "idle", key |-> "", speech |-> <<>>, menu |-> MenuUndefined]

NoResult ==
    NoRun.result

\* The last completed operation.  For a getOrCreate + parseOrder ("parse"):
\* the key, the menu and utterance supplied, whether the cache was hit, the
\* identity of the matcher returned, the status and the result.  firstInEpoch:
\* it was the first getOrCreate for the key since the key's last invalidation
\* (or since the start); afterClear: ... since an invalidation.  sameAsPrev: the
\* operation before it was a "parse" with the same key, menu and utterance,
\* whose hit and result are prevHit and prevResult.  For a response of the
\* menu webhook ("webhook"): hit tells that the restaurant was found in the
\* database, afterClear that the handler called clearCache before responding.
NoHistory ==
    [op |-> "none", key |-> "", hasKey |-> FALSE, menu |-> MenuUndefined, speech |-> <<>>,
     status |-> 0, hit |-> FALSE, matcherId |-> 0, result |-> NoResult,
     firstInEpoch |-> FALSE, afterClear |-> FALSE, sameAsPrev |-> FALSE, prevHit |-> FALSE,
     prevResult |-> NoResult]

NotCalled ==
    [done |-> FALSE, threw |-> FALSE, run |-> NoRun]

\* no item: the single matchModifiers call is not part of the behaviour
NoItem ==
    [name |-> "", price |-> 0, description |-> "", category |-> "", modifiers |-> <<>>]

\* no call of the function made yet
NoCall ==
    [op |-> "none"]

NotMatched ==
    [done |-> FALSE, matched |-> <<>>, unmatchedTokens |-> <<>>, windows |-> <<>>]

InitParse ==
    /\ pMenu \in ParseMenus
    /\ pSpeech \in Utterances
    /\ Cardinality(oracleDomain({pMenu}, {pSpeech})) <= MaxOracleCells
    /\ fuseScore \in OraclesFor({pMenu}, {pSpeech})
    /\ pOut = NotCalled
    /\ mItem = NoItem
    /\ mTokens = <<>>
    /\ mOut = NotMatched
    /\ wA = <<>>
    /\ wB = <<>>
    /\ wOut = NoCall
    /\ nOut = NoCall
    /\ matcherCache = <<>>
    /\ upstreamMenu = <<>>
    /\ requests = <<>>
    /\ webhook = [pc |-> "idle"]
    /\ built = 0
    /\ history = NoHistory
    /\ epoch = <<>>

\* const matcher = new FuzzyMenuMatcher(menu); matcher.parseOrder(speech)
ParseOrderCall ==
    /\ ~pOut.done
    /\ pOut' = buildAndParse(pMenu, pSpeech)
    /\ UNCHANGED <<fuseScore, matcherCache, upstreamMenu, requests, webhook, built,
                   history, epoch, pMenu, pSpeech, mItem, mTokens, mOut, wA, wB, wOut, nOut>>

NextParse ==
    ParseOrderCall

SpecParse ==
    InitParse /\ [][NextParse]_vars

(***************************************************************************)
(* Properties of a single parseOrder call (specification SpecParse)        *)
(***************************************************************************)
pTokens ==
    normalizeSpeech(pSpeech)

pResult ==
    pOut.run.result

pReturned ==
    pOut.done /\ ~pOut.threw

\* the contiguous token windows <<start, length>> of the utterance
pWindows ==
    {w \in (0..Len(pTokens)) \X (1..Len(pTokens)) : w[1] + w[2] <= Len(pTokens)}

pWindowTokens(w) ==
    SubSeq(pTokens, w[1] + 1, w[1] + w[2])

\* what the index built from pMenu answers for the window
pWindowResults(w) ==
    fuseSearch(flattenMenu(pMenu).items, Join(pWindowTokens(w), <<" ">>))

pFullResults ==
    pWindowResults(<<0, Len(pTokens)>>)

\* the window's candidate score: top raw score minus 0.02 per token, not below 0
pCandidateScore(w) ==
    Max2(0, pWindowResults(w)[1].score - 20 * w[2])

pHasCandidate(w) ==
    pWindowResults(w) # <<>>

pStrongFullPhrase ==
    /\ pTokens # <<>>
    /\ pFullResults # <<>>
    /\ pFullResults[1].score < 300

\* x is amount rounded to a multiple of 10, halves up
IsRounding10(x, amount) ==
    x % 10 = 0 /\ amount - 5 < x /\ x <= amount + 5

\* C6: for a missing or empty menu snapshot (no menu object, no categories, a
\* category without items, zero items), building the matcher and calling
\* parseOrder never throws and returns success=false with an error message
\* that is neither the EmptyUtterance nor a NoMatch message.
C6_IndexUnavailable ==
    (pOut.done /\ pMenu \in UnavailableMenus) =>
        /\ ~pOut.threw
        /\ ~pResult.success
        /\ pResult.error # <<>>
        /\ pResult.error[1] \notin {ERR_EMPTY, ERR_WEAK, ERR_NONE}

\* C7: an utterance whose normalization yields zero tokens gets success=false,
\* match=null, no alternatives and the error 'No meaningful words found in
\* speech', the index is not searched, and that error differs from both
\* no-match messages.
C7_EmptyUtterance ==
    (pReturned /\ pTokens = <<>>) =>
        /\ pResult = [success |-> FALSE, match |-> <<>>, alternativeMatches |-> <<>>,
                      error |-> <<"No meaningful words found in speech">>]
        /\ pOut.run.searches = <<>>
        /\ pResult.error[1] # "No strong match found. Did you mean one of the alternatives?"
        /\ pResult.error[1] # "No matching menu item found"

C7_Witness ==
    /\ pReturned
    /\ pSpeech = <<"U","m",","," ","y","e","a","h"," ","p","l","e","a","s","e">>
    /\ pMenu = MenuDrinks
    /\ ~pResult.success

\* C8: with tokens and no candidate of score <= 0.5, parseOrder returns
\* success=false and match=null; alternativeMatches holds the first (at most 3)
\* results of the search of the best window, is non-empty whenever any window
\* had a result, and the error is the 'Did you mean' message exactly when
\* alternativeMatches is non-empty and 'No matching menu item found' exactly
\* when it is empty.
C8_NoMatch ==
    (/\ pReturned
     /\ pTokens # <<>>
     /\ \A w \in pWindows : pHasCandidate(w) => pCandidateScore(w) > 500) =>
        LET alts == pResult.alternativeMatches
            src == fuseSearch(flattenMenu(pMenu).items,
                              Join(pOut.run.usedTokensForItem, <<" ">>))
        IN  /\ ~pResult.success
            /\ pResult.match = <<>>
            /\ Len(alts) = Min2(3, Len(src))
            /\ \A k \in 1..Len(alts) :
                   /\ alts[k].name = src[k].item.name
                   /\ alts[k].category = src[k].item.category
                   /\ IsRounding10(10 * alts[k].confidence, 1000 - src[k].score)
            /\ (\E w \in pWindows : pHasCandidate(w)) <=> alts # <<>>
            /\ (pOut.run.usedTokensForItem # <<>>) <=> alts # <<>>
            /\ pResult.error = IF alts # <<>>
                 THEN <<"No strong match found. Did you mean one of the alternatives?">>
                 ELSE <<"No matching menu item found">>

C8_Witness ==
    /\ pReturned
    /\ ~pResult.success
    /\ Len(pFullResults) = 4
    /\ Len(pResult.alternativeMatches) = 3
    /\ pResult.error = <<ERR_WEAK>>

\* C9: success=true exactly when a best candidate exists and its score (raw
\* for the full-phrase match, length-adjusted for a sub-phrase match) is
\* <= 0.5; the confidence is round((1 - score) * 100) / 100 and lies between
\* 0.5 and 1.
C9_Acceptance ==
    pReturned =>
        /\ pResult.success <=>
               (\E w \in pWindows : pHasCandidate(w) /\ pCandidateScore(w) <= 500)
        /\ pResult.success =>
               LET score == pOut.run.bestScore
                   used == pOut.run.usedTokensForItem
                   conf == pResult.match[1].confidence
               IN  /\ score <= 500
                   /\ IF pStrongFullPhrase
                      THEN score = pFullResults[1].score
                      ELSE \E w \in pWindows :
                              /\ pWindowTokens(w) = used
                              /\ pHasCandidate(w)
                              /\ score = pCandidateScore(w)
                   /\ IsRounding10(10 * conf, 1000 - score)
                   /\ conf >= 50 /\ conf <= 100

C9_Witness ==
    /\ pReturned
    /\ pResult.success
    /\ ~pStrongFullPhrase
    /\ pOut.run.bestScore = 500
    /\ pResult.match[1].confidence = 50

\* what C10 states apart from the price
C10_Accepted(top, m) ==
    LET required == SelectSeq(top.item.modifiers, LAMBDA g : g.required)
    IN  /\ pResult.success
        /\ m.item = [name |-> top.item.name, price |-> top.item.price,
                     category |-> top.item.category,
                     description |-> top.item.description]
        /\ IsRounding10(10 * m.confidence, 1000 - top.score)
        /\ pOut.run.searches = <<Join(pTokens, <<" ">>)>>
        /\ pOut.run.examined = <<>>
        /\ m.matchedModifiers = <<>>
        /\ Len(m.remainingRequiredModifiers) = Len(required)
        /\ \A k \in 1..Len(required) :
               m.remainingRequiredModifiers[k].groupName = required[k].name

\* C10 as claimed: a full-phrase top score < 0.3 is accepted with that score,
\* no sub-phrase search runs, no modifier is matched, every required group
\* remains, and calculatedPrice equals the item's base price.
C10_StrongFullPhrase_Claimed ==
    (pReturned /\ pStrongFullPhrase) =>
        /\ C10_Accepted(pFullResults[1], pResult.match[1])
        /\ pResult.match[1].calculatedPrice = pFullResults[1].item.price

\* C10: if the top result of the full-phrase search has score < 0.3, that item
\* is accepted with that score, the full-phrase search is the only search,
\* matchedModifiers is empty, every required group of the item is in
\* remainingRequiredModifiers, and calculatedPrice is the item's base price
\* rounded to two decimals.
C10_StrongFullPhrase ==
    (pReturned /\ pStrongFullPhrase) =>
        /\ C10_Accepted(pFullResults[1], pResult.match[1])
        /\ IsRounding10(pResult.match[1].calculatedPrice, pFullResults[1].item.price)

C10_Witness ==
    /\ pReturned
    /\ pSpeech = <<"c","o","l","a"," ","l","a","r","g","e">>
    /\ pStrongFullPhrase
    /\ pResult.success
    /\ pResult.match[1].item.name = "Cola"
    /\ Len(pResult.match[1].remainingRequiredModifiers) = 1

(***************************************************************************)
(* The matcher cache under sequences of getOrCreate / parseOrder /         *)
(* clearCache calls (specification SpecCache)                              *)
(***************************************************************************)
Keys ==
    {"+15550001", "+15550002"}

MenuCola ==
    Menu(<<Category("Drinks", TRUE, <<Cola>>)>>)

\* menu snapshots of the declared parameter type { categories: any[] }
CacheMenus ==
    {MenuCola, MenuRepriced, MenuZeroCategories}

CacheSpeeches ==
    {<<"C","o","l","a","!">>, <<"u","m">>}

\* bound on the number of matchers constructed in one behaviour
MaxBuilt ==
    3

\* the keys a clearCache(phoneNumber?) call removes
clearedKeys(hasArg, phoneNumber) ==
    IF hasArg /\ phoneNumber # "" THEN {phoneNumber} ELSE Keys

\* per key, since its last invalidation (or the start): builds counts the
\* matchers constructed for it, ids holds the identities getOrCreate returned
\* for it; cleared tells that an invalidation began the epoch, changed that the
\* key's resolved menu has changed since
FreshEpoch(cleared) ==
    [builds |-> 0, ids |-> {}, cleared |-> cleared, changed |-> FALSE]

EpochAfterClear(keys) ==
    [k \in Keys |-> IF k \in keys THEN FreshEpoch(TRUE) ELSE epoch[k]]

EpochAfterGet(phoneNumber, got) ==
    [epoch EXCEPT ![phoneNumber] =
        [@ EXCEPT !.builds = IF ~got.hit /\ ~got.threw THEN @ + 1 ELSE @,
                  !.ids = IF got.threw THEN @ ELSE @ \cup {got.matcher.id}]]

\* the observation of getOrCreate(phoneNumber, menu) followed by parseOrder(speech)
HistoryAfterParse(phoneNumber, menu, speech, got) ==
    LET same == /\ history.op = "parse"
                /\ history.key = phoneNumber
                /\ history.menu = menu
                /\ history.speech = speech
    IN  [op |-> "parse", key |-> phoneNumber, hasKey |-> TRUE, menu |-> menu,
         speech |-> speech,
         status |-> IF got.threw THEN 500 ELSE 200,
         hit |-> got.hit,
         matcherId |-> IF got.threw THEN 0 ELSE got.matcher.id,
         result |-> IF got.threw THEN NoResult ELSE parseOrder(got.matcher, speech),
         firstInEpoch |-> epoch[phoneNumber].ids = {},
         afterClear |-> epoch[phoneNumber].ids = {} /\ epoch[phoneNumber].cleared,
         sameAsPrev |-> same,
         prevHit |-> same /\ history.hit,
         prevResult |-> IF same THEN history.result ELSE NoResult]

InitCache ==
    /\ fuseScore \in OraclesFor(CacheMenus, CacheSpeeches)
    /\ matcherCache = <<>>
    /\ built = 0
    /\ history = NoHistory
    /\ epoch = [k \in Keys |-> FreshEpoch(FALSE)]
    /\ upstreamMenu = <<>>
    /\ requests = <<>>
    /\ webhook = [pc |-> "idle"]
    /\ pMenu = MenuUndefined
    /\ pSpeech = <<>>
    /\ pOut = NotCalled
    /\ mItem = NoItem
    /\ mTokens = <<>>
    /\ mOut = NotMatched
    /\ wA = <<>>
    /\ wB = <<>>
    /\ wOut = NoCall
    /\ nOut = NoCall

\* const matcher = FuzzyMenuMatcher.getOrCreate(phoneNumber, menu);
\* const result = matcher.parseOrder(speech);
GetOrCreateParse(phoneNumber, menu, speech) ==
    LET got == getOrCreate(matcherCache, phoneNumber, menu, built + 1)
    IN  /\ got.hit \/ built < MaxBuilt
        /\ matcherCache' = got.cache
        /\ built' = IF ~got.hit /\ ~got.threw THEN built + 1 ELSE built
        /\ history' = HistoryAfterParse(phoneNumber, menu, speech, got)
        /\ epoch' = EpochAfterGet(phoneNumber, got)
        /\ UNCHANGED <<fuseScore, upstreamMenu, requests, webhook, pMenu, pSpeech, pOut,
                              mItem, mTokens, mOut, wA, wB, wOut, nOut>>

\* FuzzyMenuMatcher.clearCache(phoneNumber?)
ClearCacheCall(hasArg, phoneNumber) ==
    /\ matcherCache' = clearCache(matcherCache, hasArg, phoneNumber)
    /\ history' = [NoHistory EXCEPT !.op = "clearCache", !.key = phoneNumber,
                                    !.hasKey = hasArg]
    /\ epoch' = EpochAfterClear(clearedKeys(hasArg, phoneNumber) \cap Keys)
    /\ UNCHANGED <<fuseScore, upstreamMenu, requests, webhook, built, pMenu, pSpeech, pOut,
                              mItem, mTokens, mOut, wA, wB, wOut, nOut>>

NextCache ==
    \/ \E k \in Keys, menu \in CacheMenus, speech \in CacheSpeeches :
           GetOrCreateParse(k, menu, speech)
    \/ \E hasArg \in BOOLEAN, k \in Keys \cup {""} : ClearCacheCall(hasArg, k)

SpecCache ==
    InitCache /\ [][NextCache]_vars

(***************************************************************************)
(* Properties of the matcher cache (specification SpecCache)               *)
(***************************************************************************)
\* the result a matcher freshly built from the menu returns for the utterance
FreshResult(menu, speech) ==
    buildAndParse(menu, speech).run.result

\* C1: the result of getOrCreate(key, menu).parseOrder(utterance) equals the
\* result of a matcher freshly built from the supplied menu, after any
\* sequence of getOrCreate, parseOrder and clearCache operations.
C1_EqualsFreshMatcher ==
    history.op = "parse" =>
        /\ history.status = 200
        /\ history.result = FreshResult(history.menu, history.speech)

\* C2: two consecutive requests with the same key, menu snapshot and utterance
\* return identical results, whether the first built the index or found it
\* cached.
C2_RepeatIdentical ==
    history.sameAsPrev =>
        /\ history.status = 200
        /\ history.result = history.prevResult

C2_Witness ==
    /\ history.sameAsPrev
    /\ ~history.prevHit
    /\ history.hit
    /\ history.result.success

\* C4: after clearCache(key) or clearCache() the cache holds no index for the
\* key (until the next getOrCreate for it), and the next getOrCreate(key, menu)
\* builds a new index from the menu passed to that call and stores it under key.
C4_ClearThenRebuild ==
    /\ history.op = "clearCache" =>
           IF history.hasKey /\ history.key # ""
           THEN history.key \notin DOMAIN matcherCache
           ELSE DOMAIN matcherCache = {}
    /\ \A k \in Keys :
           (epoch[k].cleared /\ epoch[k].ids = {}) => k \notin DOMAIN matcherCache
    /\ (history.op = "parse" /\ history.afterClear) =>
           /\ ~history.hit
           /\ history.key \in DOMAIN matcherCache
           /\ matcherCache[history.key].allItems = flattenMenu(history.menu).items
           /\ matcherCache[history.key].id = history.matcherId
           /\ history.matcherId = built
           /\ history.result = FreshResult(history.menu, history.speech)

C4_Witness ==
    /\ history.op = "parse"
    /\ history.afterClear
    /\ built >= 2
    /\ history.menu = MenuRepriced
    /\ history.result.success

\* C5: in a sequence of getOrCreate calls for one key with no clearCache in
\* between, the index is built exactly once, by the first call, and every call
\* returns that same index; a second build for a key needs an invalidation.
C5_BuiltOncePerEpoch ==
    /\ \A k \in Keys :
           /\ epoch[k].builds <= 1
           /\ Cardinality(epoch[k].ids) <= 1
           /\ epoch[k].ids # {} =>
                  /\ epoch[k].builds = 1
                  /\ k \in DOMAIN matcherCache
                  /\ epoch[k].ids = {matcherCache[k].id}
    /\ history.op = "parse" =>
           /\ history.hit <=> ~history.firstInEpoch
           /\ history.matcherId = matcherCache[history.key].id

C5_Witness ==
    /\ history.op = "parse"
    /\ history.hit
    /\ history.sameAsPrev
    /\ history.prevHit
    /\ built >= 2
    /\ epoch[history.key].builds = 1

(***************************************************************************)
(* The routes: POST /parse-order/:phoneNumber and POST /toast-menu-webhook *)
(* (specification Spec).  A handler runs to its next await in one step;    *)
(* the steps of different requests interleave.                             *)
(***************************************************************************)
HexDigits ==
    Digits \cup {"a", "b", "c", "d", "e", "f", "A", "B", "C", "D", "E", "F"}

\* decodeURIComponent for the escapes of the parameters below: "%2B" is "+",
\* a "%" that does not begin an escape throws URIError
RECURSIVE decodeFrom(_, _)
decodeFrom(s, i) ==
    IF i > Len(s) THEN [threw |-> FALSE, value |-> ""]
    ELSE IF SubSeq(s, i, i) # "%"
         THEN LET rest == decodeFrom(s, i + 1)
              IN  [threw |-> rest.threw, value |-> SubSeq(s, i, i) \o rest.value]
         ELSE IF /\ i + 2 <= Len(s)
                 /\ SubSeq(s, i + 1, i + 1) \in HexDigits
                 /\ SubSeq(s, i + 2, i + 2) \in HexDigits
              THEN LET rest == decodeFrom(s, i + 3)
                       char == IF SubSeq(s, i + 1, i + 2) \in {"2B", "2b"}
                               THEN "+" ELSE "?"
                   IN  [threw |-> rest.threw, value |-> char \o rest.value]
              ELSE [threw |-> TRUE, value |-> ""]

decodeURIComponent(s) ==
    decodeFrom(s, 1)

\* normalizePhone(phone): the decoded parameter, prefixed with "+" unless it
\* starts with one
normalizePhone(phone) ==
    LET decoded == decodeURIComponent(phone)
    IN  IF decoded.threw THEN decoded
        ELSE IF Len(decoded.value) >= 1 /\ SubSeq(decoded.value, 1, 1) = "+"
             THEN decoded
             ELSE [threw |-> FALSE, value |-> "+" \o decoded.value]

\* BlandService.getMenuForParsing(phoneNumber): resolves to the menu the
\* restaurant's menu source holds for the number when it is asked
getMenuForParsing(phoneNumber) ==
    upstreamMenu[phoneNumber]

PhoneParams ==
    {"+15550001", "15550001", "%2B15550001", "%"}

\* the numbers the parameters above normalise to
RouteKeys ==
    {"+15550001"}

RouteMenus ==
    {MenuCola, MenuRepriced}

RouteSpeeches ==
    {<<"C","o","l","a","!">>}

\* the item is found with a strong score, or not found
RouteOracles ==
    {f \in OraclesFor(RouteMenus, RouteSpeeches) : \A c \in DOMAIN f : f[c] \in {NoHit, 120}}

\* bound on the parse-order requests in flight at once
MaxInFlight ==
    2

Slots ==
    1 .. MaxInFlight

WebhookIdle ==
    [pc |-> "idle"]

Responded(op, status) ==
    [NoHistory EXCEPT !.op = op, !.status = status]

Init ==
    /\ fuseScore \in RouteOracles
    /\ matcherCache = <<>>
    /\ upstreamMenu \in [RouteKeys -> RouteMenus]
    /\ requests = [i \in Slots |-> IdleRequest]
    /\ webhook = WebhookIdle
    /\ built = 0
    /\ history = NoHistory
    /\ epoch = [k \in Keys |-> FreshEpoch(FALSE)]
    /\ pMenu = MenuUndefined
    /\ pSpeech = <<>>
    /\ pOut = NotCalled
    /\ mItem = NoItem
    /\ mTokens = <<>>
    /\ mOut = NotMatched
    /\ wA = <<>>
    /\ wB = <<>>
    /\ wOut = NoCall
    /\ nOut = NoCall

\* POST /parse-order/:phoneNumber up to `await getMenuForParsing(phoneNumber)`;
\* hasSpeech: req.body.speech is a string
ParseOrderReceive(slot, param, hasSpeech, speech) ==
    LET phoneNumber == normalizePhone(param)
    IN  /\ requests[slot].pc = "idle"
        /\ \A j \in Slots : j < slot => requests[j].pc # "idle"
        /\ IF phoneNumber.threw
           THEN /\ history' = Responded("parse", 500)
                /\ UNCHANGED requests
           ELSE IF ~hasSpeech \/ speech = <<>>
                THEN /\ history' = Responded("parse", 400)
                     /\ UNCHANGED requests
                ELSE /\ requests' = [requests EXCEPT ![slot] =
                                        [pc |-> "awaitMenu", key |-> phoneNumber.value,
                                         speech |-> speech,
                                         menu |-> getMenuForParsing(phoneNumber.value)]]
                     /\ UNCHANGED history
        /\ UNCHANGED <<fuseScore, matcherCache, upstreamMenu, webhook, built, epoch,
                       pMenu, pSpeech, pOut,
                              mItem, mTokens, mOut, wA, wB, wOut, nOut>>

\* ... the rest of the handler, once the menu has arrived: getOrCreate,
\* parseOrder, res.json(result); a throw is answered with 500
ParseOrderContinue(slot) ==
    LET r == requests[slot]
        got == getOrCreate(matcherCache, r.key, r.menu, built + 1)
    IN  /\ r.pc = "awaitMenu"
        /\ got.hit \/ built < MaxBuilt
        /\ matcherCache' = got.cache
        /\ built' = IF ~got.hit /\ ~got.threw THEN built + 1 ELSE built
        /\ history' = HistoryAfterParse(r.key, r.menu, r.speech, got)
        /\ epoch' = EpochAfterGet(r.key, got)
        /\ requests' = [requests EXCEPT ![slot] = IdleRequest]
        /\ UNCHANGED <<fuseScore, upstreamMenu, webhook, pMenu, pSpeech, pOut,
                              mItem, mTokens, mOut, wA, wB, wOut, nOut>>

\* the restaurant publishes another menu for the number
MenuChanges(phoneNumber, menu) ==
    /\ menu # upstreamMenu[phoneNumber]
    /\ upstreamMenu' = [upstreamMenu EXCEPT ![phoneNumber] = menu]
    /\ epoch' = [epoch EXCEPT ![phoneNumber].changed = TRUE]
    /\ UNCHANGED <<fuseScore, matcherCache, requests, webhook, built, history,
                   pMenu, pSpeech, pOut,
                              mItem, mTokens, mOut, wA, wB, wOut, nOut>>

\* POST /toast-menu-webhook up to `await Database.query(...)`
WebhookReceive(hasDetails, eventType, hasGuid) ==
    /\ webhook.pc = "idle"
    /\ IF ~hasDetails
       THEN /\ history' = Responded("webhook", 500)
            /\ UNCHANGED webhook
       ELSE IF eventType # "menus_updated"
            THEN /\ history' = Responded("webhook", 200)
                 /\ UNCHANGED webhook
            ELSE IF ~hasGuid
                 THEN /\ history' = Responded("webhook", 400)
                      /\ UNCHANGED webhook
                 ELSE /\ webhook' = [pc |-> "query"]
                      /\ UNCHANGED history
    /\ UNCHANGED <<fuseScore, matcherCache, upstreamMenu, requests, built, epoch,
                   pMenu, pSpeech, pOut,
                              mItem, mTokens, mOut, wA, wB, wOut, nOut>>

\* ... from the query's answer to `await ToastService.getRestaurantMenu(...)`
WebhookQueried(found, hasCredentials) ==
    /\ webhook.pc = "query"
    /\ IF ~found \/ ~hasCredentials
       THEN /\ history' = [Responded("webhook", 200) EXCEPT !.hit = found]
            /\ webhook' = WebhookIdle
            /\ UNCHANGED <<matcherCache, epoch>>
       ELSE /\ matcherCache' = clearCache(matcherCache, FALSE, "")
            /\ epoch' = EpochAfterClear(Keys)
            /\ webhook' = [pc |-> "prefetch"]
            /\ UNCHANGED history
    /\ UNCHANGED <<fuseScore, upstreamMenu, requests, built, pMenu, pSpeech, pOut,
                              mItem, mTokens, mOut, wA, wB, wOut, nOut>>

\* ... the prefetch has returned or thrown: res.sendStatus(200)
WebhookRespond ==
    /\ webhook.pc = "prefetch"
    /\ webhook' = WebhookIdle
    /\ history' = [Responded("webhook", 200) EXCEPT !.hit = TRUE, !.afterClear = TRUE]
    /\ UNCHANGED <<fuseScore, matcherCache, upstreamMenu, requests, built, epoch,
                   pMenu, pSpeech, pOut,
                              mItem, mTokens, mOut, wA, wB, wOut, nOut>>

Next ==
    \/ \E slot \in Slots, param \in PhoneParams, hasSpeech \in BOOLEAN,
          speech \in RouteSpeeches \cup {<<>>} :
           ParseOrderReceive(slot, param, hasSpeech, speech)
    \/ \E slot \in Slots : ParseOrderContinue(slot)
    \/ \E k \in RouteKeys, menu \in RouteMenus : MenuChanges(k, menu)
    \/ \E hasDetails \in BOOLEAN, eventType \in {"menus_updated", "menus_archived"},
          hasGuid \in BOOLEAN :
           WebhookReceive(hasDetails, eventType, hasGuid)
    \/ \E found \in BOOLEAN, hasCredentials \in BOOLEAN :
           WebhookQueried(found, hasCredentials)
    \/ WebhookRespond

Spec ==
    Init /\ [][Next]_vars

(***************************************************************************)
(* Properties of the routes (specification Spec)                           *)
(***************************************************************************)
\* C3: when parse-order requests for a key race with a menu-update
\* invalidation, the index in the cache once the invalidation has happened is
\* equivalent to one built from the current (post-update) menu: a request that
\* fetched its snapshot before the invalidation leaves no old-menu index.
C3_NoOldIndexAfterInvalidation ==
    \A k \in RouteKeys :
        (epoch[k].cleared /\ ~epoch[k].changed /\ k \in DOMAIN matcherCache) =>
            matcherCache[k].allItems = flattenMenu(upstreamMenu[k]).items

(***************************************************************************)
(* A single matchModifiers call (specification SpecModifiers)              *)
(***************************************************************************)
MilkGroup ==
    Group("Milk", TRUE, FALSE,
          <<Option(<<"O","a","t"," ","M","i","l","k">>, 750, FALSE),
            Option(<<"W","h","o","l","e"," ","M","i","l","k">>, 0, TRUE)>>)

\* one option's name is the tail of another's; one price delta is negative
AddOnsGroup ==
    Group("Add-ons", FALSE, TRUE,
          <<Option(<<"F","o","a","m">>, 254, FALSE),
            Option(<<"N","o"," ","F","o","a","m">>, -250, FALSE)>>)

TemperatureGroup ==
    Group("Temperature", TRUE, FALSE,
          <<Option(<<"H","o","t">>, 0, TRUE), Option(<<"I","c","e","d">>, 500, FALSE)>>)

Latte ==
    RawItem("Latte", 4500, FALSE, "", TRUE, <<MilkGroup, AddOnsGroup, TemperatureGroup>>)

MenuLatte ==
    Menu(<<Category("Coffee", TRUE, <<Latte>>)>>)

\* an option whose name has more words than the longest window tried
SweetnessGroup ==
    Group("Sweetness", FALSE, TRUE,
          <<Option(<<"L","e","s","s"," ","I","c","e"," ","N","o"," ","S","u","g","a","r"," ","A","d","d","e","d">>, 0, FALSE)>>)

Chai ==
    RawItem("Chai", 3750, FALSE, "", TRUE, <<SweetnessGroup>>)

MenuChai ==
    Menu(<<Category("Tea", TRUE, <<Chai>>)>>)

\* the items as the matcher holds them
ModifierItems ==
    {flattenMenu(MenuCola).items[1], flattenMenu(MenuLatte).items[1],
     flattenMenu(MenuChai).items[1], flattenMenu(MenuDrinks).items[2]}

\* words a caller may say after naming the item
ModifierWords(item) ==
    IF item.name = "Cola" THEN {<<"s","m","a","l","l">>, <<"s","m","a","l">>, <<"l","a","r","g","e">>, <<"l","i","m","e">>}
    ELSE IF item.name = "Latte" THEN {<<"o","a","t">>, <<"m","i","l","k">>, <<"n","o">>, <<"f","o","a","m">>, <<"i","c","e","d">>}
    ELSE {<<"h","o","t">>}

\* longer things a caller may say
LongTokenLists(item) ==
    IF item.name = "Cola" THEN {<<<<"l","i","m","e">>, <<"s","m","a","l","l">>, <<"i","c","e">>, <<"l","a","r","g","e">>, <<"l","i","m","e">>>>}
    ELSE IF item.name = "Latte"
    THEN {<<<<"n","o">>, <<"f","o","a","m">>, <<"o","a","t">>, <<"m","i","l","k">>, <<"i","c","e","d">>>>,
          <<<<"o","a","t">>, <<"m","i","l","k">>, <<"n","o">>, <<"f","o","a","m">>, <<"o","a","t","m","i","l","k">>>>}
    ELSE IF item.name = "Chai"
    THEN {<<<<"l","e","s","s">>, <<"i","c","e">>, <<"n","o">>, <<"s","u","g","a","r">>, <<"a","d","d","e","d">>>>}
    ELSE {}

\* bound on the length of the token lists that are enumerated in full
MaxModifierTokens ==
    3

TokenLists(item) ==
    UNION {[1..n -> ModifierWords(item)] : n \in 0..MaxModifierTokens}
        \cup LongTokenLists(item)

InitModifiers ==
    /\ mItem \in ModifierItems
    /\ mTokens \in TokenLists(mItem)
    /\ mOut = NotMatched
    /\ wA = <<>>
    /\ wB = <<>>
    /\ wOut = NoCall
    /\ nOut = NoCall
    /\ fuseScore = <<>>
    /\ matcherCache = <<>>
    /\ upstreamMenu = <<>>
    /\ requests = <<>>
    /\ webhook = [pc |-> "idle"]
    /\ built = 0
    /\ history = NoHistory
    /\ epoch = <<>>
    /\ pMenu = MenuUndefined
    /\ pSpeech = <<>>
    /\ pOut = NotCalled

\* this.matchModifiers(remainingTokens, bestItem)
MatchModifiersCall ==
    LET out == matchModifiers(mTokens, mItem)
    IN  /\ ~mOut.done
        /\ mOut' = [done |-> TRUE, matched |-> out.matched,
                    unmatchedTokens |-> out.unmatchedTokens, windows |-> out.windows]
        /\ UNCHANGED <<fuseScore, matcherCache, upstreamMenu, requests, webhook, built,
                       history, epoch, pMenu, pSpeech, pOut, mItem, mTokens,
                       wA, wB, wOut, nOut>>

NextModifiers ==
    MatchModifiersCall

SpecModifiers ==
    InitModifiers /\ [][NextModifiers]_vars

(***************************************************************************)
(* Properties of a single matchModifiers call (specification SpecModifiers)*)
(***************************************************************************)
mWindowTokens(w) ==
    SubSeq(mTokens, w[1] + 1, w[1] + w[2])

\* the token windows <<start, length>> matchModifiers may try
mWindows ==
    {w \in (0..Len(mTokens)) \X (1..4) : w[1] + w[2] <= Len(mTokens)}

\* the search order: longer windows first, then leftmost
mBefore(w1, w2) ==
    w1[2] > w2[2] \/ (w1[2] = w2[2] /\ w1[1] < w2[1])

mOverlap(w1, w2) ==
    (w1[1]..(w1[1] + w1[2] - 1)) \cap (w2[1]..(w2[1] + w2[2] - 1)) # {}

\* the window names the option
mNames(w, option) ==
    optionMatches(Join(mWindowTokens(w), <<" ">>), Join(mWindowTokens(w), <<>>),
                  [normalizedName |-> normalizeOptionName(option.name)])

mAccepted ==
    {mOut.windows[i] : i \in 1..Len(mOut.windows)}

\* the window was free when its turn came: no window accepted before it in
\* the search order overlaps it, and it was not accepted itself
mFreeAndPassed(w) ==
    /\ w \notin mAccepted
    /\ \A a \in mAccepted : mBefore(a, w) => ~mOverlap(a, w)

\* C11: for every group of the item that is not multiSelect, matchModifiers
\* returns at most one MatchedModifier, even when several of its options are
\* named in the tokens, and the one kept is the first found in search order:
\* longer windows first, then the leftmost window, then declaration order.
C11_SingleSelect ==
    mOut.done =>
        \A gi \in 1..Len(mItem.modifiers) :
            LET g == mItem.modifiers[gi]
                hits == {i \in 1..Len(mOut.matched) : mOut.matched[i].groupName = g.name}
            IN  ~g.multiSelect =>
                    /\ Cardinality(hits) <= 1
                    /\ \A i \in hits :
                           LET w == mOut.windows[i]
                               k == CHOOSE k \in 1..Len(g.options) :
                                        g.options[k].name = mOut.matched[i].optionName
                           IN  /\ mNames(w, g.options[k])
                               /\ \A j \in 1..(k - 1) : ~mNames(w, g.options[j])
                               /\ \A v \in mWindows, j \in 1..Len(g.options) :
                                      (mBefore(v, w) /\ mNames(v, g.options[j]))
                                          => ~mFreeAndPassed(v)

C11_Witness ==
    /\ mOut.done
    /\ mItem.name = "Cola"
    /\ mTokens = <<<<"s","m","a","l","l">>, <<"l","a","r","g","e">>>>
    /\ Len(mOut.matched) = 1
    /\ mOut.matched[1].optionName = <<"S","m","a","l","l">>
    /\ mOut.unmatchedTokens = <<<<"l","a","r","g","e">>>>

\* C20: the windows of the accepted matches are pairwise disjoint, each has
\* between 1 and 4 tokens, and unmatchedTokens is the list of the remaining
\* tokens whose index lies in no accepted window, in original order (so the
\* tokens of a window rejected by the single-select rule stay unconsumed).
C20_DisjointWindows ==
    mOut.done =>
        LET n == Len(mOut.windows)
            consumed == UNION {(mOut.windows[i][1] + 1)..(mOut.windows[i][1] + mOut.windows[i][2])
                                  : i \in 1..n}
        IN  /\ Len(mOut.matched) = n
            /\ \A i \in 1..n :
                   /\ mOut.windows[i][2] >= 1 /\ mOut.windows[i][2] <= 4
                   /\ mOut.windows[i] \in mWindows
            /\ \A i \in 1..n, j \in 1..n :
                   i # j => ~mOverlap(mOut.windows[i], mOut.windows[j])
            /\ LET left == SelectSeq([p \in 1..Len(mTokens) |-> <<p, mTokens[p]>>],
                                     LAMBDA x : x[1] \notin consumed)
               IN  mOut.unmatchedTokens = [p \in 1..Len(left) |-> left[p][2]]

C20_Witness ==
    /\ mOut.done
    /\ mItem.name = "Latte"
    /\ mTokens = <<<<"o","a","t">>, <<"m","i","l","k">>, <<"n","o">>, <<"f","o","a","m">>, <<"o","a","t","m","i","l","k">>>>
    /\ mOut.windows = <<<<0, 3>>, <<3, 1>>>>
    /\ mOut.unmatchedTokens = <<<<"o","a","t","m","i","l","k">>>>

(***************************************************************************)
(* parseOrder on utterances of several words (specification SpecOrder)     *)
(***************************************************************************)
\* an item whose only modifier is a discount
WhipGroup ==
    Group("Whip", FALSE, FALSE, <<Option(<<"N","o"," ","W","h","i","p">>, -250, FALSE)>>)

Mocha ==
    RawItem("Mocha", 4500, FALSE, "", TRUE, <<WhipGroup>>)

MenuMocha ==
    Menu(<<Category("Coffee", TRUE, <<Mocha>>)>>)

\* <<menu, utterance>>: what the caller says to which restaurant
OrderCases ==
    {<<MenuDrinks, <<"c","o","c","o","a"," ","c","o","l","a">>>>,
     <<MenuLatte, <<"L","a","t","t","e",","," ","o","a","t"," ","m","i","l","k">>>>,
     <<MenuMocha, <<"m","o","c","h","a"," ","n","o"," ","w","h","i","p">>>>,
     <<MenuLatte, <<"i","c","e","d"," ","l","a","t","t","e"," ","f","o","a","m">>>>,
     <<MenuCola, <<"c","o","l","a"," ","l","i","m","e"," ","c","o","l","a">>>>,
     <<MenuCola, <<"C","o","l","a"," ","l","a","r","g","e"," ","l","i","m","e">>>>}

\* scores fuse.js may give: none, near-perfect (below the length bonus),
\* weak but acceptable, and at the acceptance ceiling once adjusted
OrderScoreVals ==
    {NoHit, 10, 330, 520}

InitOrder ==
    /\ \E c \in OrderCases : pMenu = c[1] /\ pSpeech = c[2]
    /\ fuseScore \in [oracleDomain({pMenu}, {pSpeech}) -> OrderScoreVals]
    /\ pOut = NotCalled
    /\ mItem = NoItem
    /\ mTokens = <<>>
    /\ mOut = NotMatched
    /\ wA = <<>>
    /\ wB = <<>>
    /\ wOut = NoCall
    /\ nOut = NoCall
    /\ matcherCache = <<>>
    /\ upstreamMenu = <<>>
    /\ requests = <<>>
    /\ webhook = [pc |-> "idle"]
    /\ built = 0
    /\ history = NoHistory
    /\ epoch = <<>>

SpecOrder ==
    InitOrder /\ [][NextParse]_vars

(***************************************************************************)
(* Properties of a successful parseOrder result                            *)
(***************************************************************************)
pItems ==
    flattenMenu(pMenu).items

pMatch ==
    pResult.match[1]

pSucceeded ==
    pReturned /\ pResult.success

\* the position in the menu of the item the result reports
pMatchedIndex ==
    CHOOSE i \in 1..Len(pItems) :
        pMatch.item = [name |-> pItems[i].name, price |-> pItems[i].price,
                       category |-> pItems[i].category,
                       description |-> pItems[i].description]

pMatchedItem ==
    pItems[pMatchedIndex]

pMatchedGroupNames ==
    {pMatch.matchedModifiers[i].groupName : i \in 1..Len(pMatch.matchedModifiers)}

\* x is amount rounded to the nearest multiple of 10
IsNearest10(x, amount) ==
    x % 10 = 0 /\ amount - 5 <= x /\ x <= amount + 5

\* C12: on a successful result remainingRequiredModifiers is the list, in
\* declaration order, of the item's groups with required=true whose name is no
\* matched modifier's groupName, each with its full option list; no group is
\* both matched and remaining; open required groups do not make the result a
\* failure.
C12_RemainingRequired ==
    /\ pSucceeded =>
           LET rem == pMatch.remainingRequiredModifiers
               open == SelectSeq(pMatchedItem.modifiers,
                                 LAMBDA g : g.required /\ g.name \notin pMatchedGroupNames)
           IN  /\ Len(rem) = Len(open)
               /\ \A k \in 1..Len(rem) :
                      /\ rem[k].groupName = open[k].name
                      /\ rem[k].required
                      /\ rem[k].groupName \notin pMatchedGroupNames
                      /\ Len(rem[k].options) = Len(open[k].options)
                      /\ \A q \in 1..Len(rem[k].options) :
                             rem[k].options[q] =
                                 [name |-> open[k].options[q].name,
                                  price |-> open[k].options[q].price,
                                  isDefault |-> open[k].options[q].isDefault]
    /\ (pReturned /\ \E w \in pWindows : pHasCandidate(w) /\ pCandidateScore(w) <= 500)
           => pResult.success

C12_Witness ==
    /\ pSucceeded
    /\ pMenu = MenuLatte
    /\ pMatchedGroupNames = {"Milk"}
    /\ Len(pMatch.remainingRequiredModifiers) = 1
    /\ pMatch.remainingRequiredModifiers[1].groupName = "Temperature"
    /\ Len(pMatch.remainingRequiredModifiers[1].options) = 2

\* the sum of the first n price deltas
RECURSIVE pDeltaSum(_, _)
pDeltaSum(mods, n) ==
    IF n = 0 THEN 0 ELSE pDeltaSum(mods, n - 1) + mods[n].optionPrice

\* C13: on a successful result calculatedPrice is the item's base price plus
\* the sum of optionPrice over matchedModifiers (negative, zero or positive
\* deltas), rounded to two decimals; with whole-cent prices it is that sum.
C13_CalculatedPrice ==
    pSucceeded =>
        LET mods == pMatch.matchedModifiers
            sum == pMatchedItem.price + pDeltaSum(mods, Len(mods))
        IN  /\ IsNearest10(pMatch.calculatedPrice, sum)
            /\ sum % 10 = 0 => pMatch.calculatedPrice = sum

C13_Witness ==
    /\ pSucceeded
    /\ pMenu = MenuMocha
    /\ Len(pMatch.matchedModifiers) = 1
    /\ pMatch.matchedModifiers[1].optionPrice = -250
    /\ pMatch.calculatedPrice = 4250

\* the menu with the isDefault flag of every option inverted
pFlipOptions(options) ==
    [q \in 1..Len(options) |-> [options[q] EXCEPT !.isDefault = ~options[q].isDefault]]

pFlipGroups(modifiers) ==
    [g \in 1..Len(modifiers) |->
        [modifiers[g] EXCEPT !.options = pFlipOptions(modifiers[g].options)]]

pFlipItems(items) ==
    [i \in 1..Len(items) |-> [items[i] EXCEPT !.modifiers = pFlipGroups(items[i].modifiers)]]

pFlipDefaults(menu) ==
    [menu EXCEPT !.categories =
        [c \in 1..Len(menu.categories) |->
            [menu.categories[c] EXCEPT !.items = pFlipItems(menu.categories[c].items)]]]

pGroupNamesOf(remaining) ==
    [k \in 1..Len(remaining) |-> remaining[k].groupName]

\* the words of the window say the option's name: equal or within the edit
\* distance allowed for their length, with or without the spaces
pSays(words, name) ==
    LET n == normalizeOptionName(name)
    IN  \/ fuzzyWordMatch(Join(words, <<" ">>), n)
        \/ fuzzyWordMatch(Join(words, <<>>), RemoveSpaces(n))

\* C14: isDefault has no influence: the same utterance against the menu with
\* every isDefault flag inverted gives the same success, item, confidence,
\* matchedModifiers, calculatedPrice and the same groups in
\* remainingRequiredModifiers; and every matched modifier is an option of the
\* item that a window of the tokens left over names (none is added or priced
\* because it is a default).
C14_DefaultIgnored ==
    pReturned =>
        LET other == buildAndParse(pFlipDefaults(pMenu), pSpeech).run.result
        IN  /\ other.success = pResult.success
            /\ pResult.success =>
                   LET a == pMatch
                       b == other.match[1]
                   IN  /\ b.item = a.item
                       /\ b.confidence = a.confidence
                       /\ b.matchedModifiers = a.matchedModifiers
                       /\ b.calculatedPrice = a.calculatedPrice
                       /\ pGroupNamesOf(b.remainingRequiredModifiers)
                              = pGroupNamesOf(a.remainingRequiredModifiers)
                       /\ Len(pOut.run.windows) = Len(a.matchedModifiers)
                       /\ \A i \in 1..Len(a.matchedModifiers) :
                              LET w == pOut.run.windows[i]
                                  words == SubSeq(pOut.run.remainingTokens,
                                                  w[1] + 1, w[1] + w[2])
                                  m == a.matchedModifiers[i]
                              IN  \E g \in 1..Len(pMatchedItem.modifiers) :
                                      LET grp == pMatchedItem.modifiers[g]
                                      IN  /\ grp.name = m.groupName
                                          /\ \E q \in 1..Len(grp.options) :
                                                 /\ grp.options[q].name = m.optionName
                                                 /\ grp.options[q].price = m.optionPrice
                                                 /\ pSays(words, m.optionName)

\* 'Latte, oat milk': Oat Milk is matched and priced although Whole Milk is the
\* default of the group; the default Hot of the open group is not added
C14_Witness ==
    /\ pSucceeded
    /\ pMenu = MenuLatte
    /\ Len(pMatch.matchedModifiers) = 1
    /\ pMatch.matchedModifiers[1].optionName = <<"O","a","t"," ","M","i","l","k">>
    /\ pMatch.calculatedPrice = 5250
    /\ pGroupNamesOf(pMatch.remainingRequiredModifiers) = <<"Temperature">>

\* the search whose top result became the matched item
pWinningSearch ==
    IF pOut.run.phase = 1 THEN pFullResults
    ELSE fuseSearch(pItems, Join(pOut.run.usedTokensForItem, <<" ">>))

\* alternative alt is result r of the search
pIsResult(alt, r) ==
    /\ alt.name = r.item.name
    /\ alt.category = r.item.category
    /\ alt.confidence = confidenceOf(r.score)

\* C15: on a successful result alternativeMatches has at most 3 entries, taken
\* in rank order from the search that produced the winning candidate; none has
\* the matched item's name and no two have the same name.
C15_Alternatives ==
    pSucceeded =>
        LET alt == pResult.alternativeMatches
            src == pWinningSearch
        IN  /\ Len(alt) <= 3
            /\ \A i \in 1..Len(alt) :
                   /\ alt[i].name # pMatch.item.name
                   /\ \E a \in 1..Len(src) : pIsResult(alt[i], src[a])
            /\ \A i, j \in 1..Len(alt) :
                   i < j =>
                       /\ alt[i].name # alt[j].name
                       /\ \E a, b \in 1..Len(src) :
                              a < b /\ pIsResult(alt[i], src[a]) /\ pIsResult(alt[j], src[b])

\* the windows findBestSubPhraseMatch searched, as a set
pExamined ==
    {pOut.run.examined[p] : p \in 1..Len(pOut.run.examined)}

\* item i's own score for window w: its raw score less 0.02 per token, not below 0
pItemScore(i, w) ==
    Max2(0, fuseItemScore(pItems[i], Join(pWindowTokens(w), <<" ">>)) - 20 * w[2])

pItemHit(i, w) ==
    fuseItemScore(pItems[i], Join(pWindowTokens(w), <<" ">>)) # NoHit

\* the items that reach the score of the match: on the whole phrase in phase 1,
\* on some searched window in phase 2
pBestScoring ==
    IF pOut.run.phase = 1
    THEN {i \in 1..Len(pItems) :
              /\ pItemHit(i, <<0, Len(pTokens)>>)
              /\ fuseItemScore(pItems[i], Join(pTokens, <<" ">>)) = pOut.run.bestScore}
    ELSE {i \in 1..Len(pItems) :
              \E w \in pExamined : pItemHit(i, w) /\ pItemScore(i, w) = pOut.run.bestScore}

\* C16: when several menu items tie on the best score for the utterance, the
\* matched item is the one declared earliest, whether the match comes from the
\* full-phrase search or from the sub-phrase search over several windows.
C16_TieDeclaredEarlier ==
    pSucceeded =>
        /\ pMatchedIndex \in pBestScoring
        /\ \A i \in pBestScoring : pMatchedIndex <= i

\* positions in the search order of the windows that returned a result
pCandidates ==
    {p \in 1..Len(pOut.run.examined) : pHasCandidate(pOut.run.examined[p])}

pSubPhraseSearched ==
    pReturned /\ pOut.run.examined # <<>> /\ pCandidates # {}

\* C17: the candidate findBestSubPhraseMatch returns has the minimum adjusted
\* score max(0, raw - 0.02 * length) over the windows examined that returned a
\* result, and it is the first examined window with that score: a later window
\* never replaces an earlier one whose adjusted score is equal or lower.
C17_FirstMinimum ==
    pSubPhraseSearched =>
        LET score(p) == pCandidateScore(pOut.run.examined[p])
            first == CHOOSE p \in pCandidates :
                         \A q \in pCandidates : score(p) < score(q) \/ (score(p) = score(q) /\ p <= q)
        IN  /\ pOut.run.bestScore = score(first)
            /\ pOut.run.usedTokensForItem = pWindowTokens(pOut.run.examined[first])

\* the place of window w in the order longest first, then left to right
pSearchPosition(w) ==
    LET n == Len(pTokens)
    IN  ((n - w[2]) * (n - w[2] + 1)) \div 2 + w[1] + 1

\* some window of at least len tokens has an adjusted score below 0.3
pStrongDownTo(len) ==
    \E w \in pWindows : w[2] >= len /\ pHasCandidate(w) /\ pCandidateScore(w) < 300

pPhaseTwoRan ==
    pReturned /\ pTokens # <<>> /\ ~pStrongFullPhrase

\* C18: findBestSubPhraseMatch examines the windows longest first and, within
\* a length, left to right; once a length is finished with a best adjusted
\* score below 0.3 no shorter window is examined; otherwise every window down
\* to length 1 is examined.
C18_SearchOrder ==
    pPhaseTwoRan =>
        LET examined == pOut.run.examined
            last == examined[Len(examined)][2]
        IN  /\ examined # <<>>
            /\ \A p \in 1..Len(examined) :
                   examined[p] \in pWindows /\ pSearchPosition(examined[p]) = p
            /\ \A w \in pWindows : w[2] >= last => w \in pExamined
            /\ \A w \in pWindows : w[2] < last => w \notin pExamined
            /\ last > 1 => pStrongDownTo(last)
            /\ \A len \in (last + 1)..Len(pTokens) : ~pStrongDownTo(len)

\* three tokens: the search stops after the windows of two tokens
C18_Witness ==
    /\ pPhaseTwoRan
    /\ Len(pTokens) = 3
    /\ pOut.run.examined = <<<<0, 3>>, <<0, 2>>, <<1, 2>>>>
    /\ pOut.run.bestScore = 290

\* the tokens of the utterance at positions outside window w, in order
pOutside(w) ==
    LET out == {i \in 1..Len(pTokens) : i <= w[1] \/ i > w[1] + w[2]}
        nth(p) == CHOOSE i \in out : Cardinality({j \in out : j < i}) = p - 1
    IN  [p \in 1..Cardinality(out) |-> pTokens[nth(p)]]

\* C19: when the item is matched on a window of the tokens, the tokens offered
\* to the modifier matcher are exactly the token occurrences outside that
\* window, in their original order, also when a word outside the window
\* occurs inside it as well.
C19_LeftoverOccurrences ==
    (pSucceeded /\ pOut.run.phase = 2) =>
        \E w \in pExamined :
            /\ pWindowTokens(w) = pOut.run.usedTokensForItem
            /\ pOut.run.remainingTokens = pOutside(w)

(***************************************************************************)
(* fuzzyWordMatch and levenshtein on their own (specification SpecWords)   *)
(***************************************************************************)
WordAlphabet ==
    {"a", "b"}

\* longest word of the exhaustive part
MaxWordLen ==
    4

\* every string over WordAlphabet of at most n characters
RECURSIVE WordsUpTo(_)
WordsUpTo(n) ==
    IF n = 0 THEN {<<>>}
    ELSE LET shorter == WordsUpTo(n - 1)
         IN  shorter \cup {Append(w, c) : w \in shorter, c \in WordAlphabet}

\* pairs of longer words, around each tolerance
LongWordPairs ==
    {<<<<"l","a","t","t","e">>, <<"l","a","t","t">>>>,
     <<<<"l","a","t","t","e">>, <<"l","a","t">>>>,
     <<<<"o","a","t","m","i","l","k">>, <<"o","a","t"," ","m","i","l","k">>>>,
     <<<<"n","o","f","o","a","m">>, <<"f","o","a","m">>>>,
     <<<<"n","o"," ","f","o","a","m">>, <<"f","o","a","m">>>>,
     <<<<"e","s","p","r","e","s","s","o">>, <<"e","x","p","r","e","s","o">>>>,
     <<<<"e","s","p","r","e","s","s","o">>, <<"x","p","r","e","s","o">>>>,
     <<<<"c","a","p","p","u","c","c","i","n","o">>, <<"c","a","p","u","c","i","n","o">>>>,
     <<<<"c","a","p","p","u","c","c","i","n","o">>, <<"c","a","p","u","c","h","i","n","o">>>>,
     <<<<"c","a","p","p","u","c","c","i","n","o">>, <<"c","a","p","p","u","c","c","i","n","o">>>>,
     <<<<"c","a","p","p","u","c","c","i","n","o">>, <<"k","a","p","u","c","h","i","n","o">>>>,
     <<<<"c","a","p","p","u","c","c","i","n","o">>, <<"k","a","p","u","c","h","i","n">>>>,
     <<<<"m","a","c","c","h","i","a","t","o">>, <<"m","a","c","h","a","t","o">>>>,
     <<<<"m","a","c","c","h","i","a","t","o">>, <<"m","o","c","h","a">>>>,
     <<<<"a","m","e","r","i","c","a","n","o">>, <<"a","m","e","r","c","a","n","o">>>>,
     <<<<"f","l","a","t"," ","w","h","i","t","e">>, <<"f","l","a","t","w","h","i","t","e">>>>,
     <<<<"f","l","a","t"," ","w","h","i","t","e">>, <<"f","a","t"," ","w","i","t","e">>>>,
     <<<<"f","l","a","t"," ","w","h","i","t","e">>, <<"f","l","t"," ","w","i","t">>>>,
     <<<<"c","o","r","t","a","d","o">>, <<"c","o","r","t","a","o","d">>>>}

WordPairs ==
    (WordsUpTo(MaxWordLen) \X WordsUpTo(MaxWordLen))
        \cup LongWordPairs \cup {<<c[2], c[1]>> : c \in LongWordPairs}

InitWords ==
    /\ \E c \in WordPairs : wA = c[1] /\ wB = c[2]
    /\ wOut = NoCall
    /\ nOut = NoCall
    /\ fuseScore = <<>>
    /\ pMenu = MenuUndefined
    /\ pSpeech = <<>>
    /\ pOut = NotCalled
    /\ mItem = NoItem
    /\ mTokens = <<>>
    /\ mOut = NotMatched
    /\ matcherCache = <<>>
    /\ upstreamMenu = <<>>
    /\ requests = <<>>
    /\ webhook = [pc |-> "idle"]
    /\ built = 0
    /\ history = NoHistory
    /\ epoch = <<>>

\* this.fuzzyWordMatch(wA, wB)
FuzzyWordMatchCall ==
    /\ wOut = NoCall
    /\ wOut' = [op |-> "fuzzyWordMatch", match |-> fuzzyWordMatch(wA, wB)]
    /\ UNCHANGED <<fuseScore, matcherCache, upstreamMenu, requests, webhook, built,
                   history, epoch, pMenu, pSpeech, pOut, mItem, mTokens, mOut,
                   wA, wB, nOut>>

\* this.levenshtein(wA, wB)
LevenshteinCall ==
    /\ wOut = NoCall
    /\ wOut' = [op |-> "levenshtein", distance |-> levenshtein(wA, wB),
                reverse |-> levenshtein(wB, wA)]
    /\ UNCHANGED <<fuseScore, matcherCache, upstreamMenu, requests, webhook, built,
                   history, epoch, pMenu, pSpeech, pOut, mItem, mTokens, mOut,
                   wA, wB, nOut>>

NextWords ==
    \/ FuzzyWordMatchCall
    \/ LevenshteinCall

SpecWords ==
    InitWords /\ [][NextWords]_vars

(***************************************************************************)
(* Properties of fuzzyWordMatch and levenshtein                            *)
(***************************************************************************)
\* the edit distance by its textbook recursion: insertion, deletion and
\* substitution cost 1 each, nothing else is allowed
RECURSIVE wEditDistance(_, _)
wEditDistance(a, b) ==
    IF a = <<>> THEN Len(b)
    ELSE IF b = <<>> THEN Len(a)
    ELSE IF Head(a) = Head(b) THEN wEditDistance(Tail(a), Tail(b))
    ELSE 1 + Min2(wEditDistance(Tail(a), b),
                  Min2(wEditDistance(a, Tail(b)), wEditDistance(Tail(a), Tail(b))))

\* the tolerance for words whose longer one has len characters
wTolerance(len) ==
    CASE len <= 3 -> 0
      [] len > 3 /\ len <= 5 -> 1
      [] len > 5 /\ len <= 8 -> 2
      [] len > 8 -> 3

wLonger ==
    IF Len(wA) >= Len(wB) THEN Len(wA) ELSE Len(wB)

\* C21: fuzzyWordMatch(a, b) is true exactly when the edit distance of a and b
\* is at most the tolerance of the longer string's length (0 up to 3, 1 up to
\* 5, 2 up to 8, 3 beyond); equal strings always match and two different
\* strings of at most 3 characters never match.
C21_Tolerance ==
    wOut.op = "fuzzyWordMatch" =>
        /\ wOut.match <=> (wEditDistance(wA, wB) <= wTolerance(wLonger))
        /\ wA = wB => wOut.match
        /\ (wA # wB /\ wLonger <= 3) => ~wOut.match

\* 'espresso' and 'expreso' (8 and 7 characters) are 2 edits apart and match
C21_Witness ==
    /\ wOut.op = "fuzzyWordMatch"
    /\ wA = <<"e","s","p","r","e","s","s","o">>
    /\ wB = <<"e","x","p","r","e","s","o">>
    /\ wOut.match

\* b is a with two neighbouring, different characters exchanged
wTransposed(a, b) ==
    /\ Len(a) = Len(b)
    /\ \E i \in 1..(Len(a) - 1) :
           /\ a[i] # a[i + 1]
           /\ b[i] = a[i + 1]
           /\ b[i + 1] = a[i]
           /\ \A k \in 1..Len(a) : k \notin {i, i + 1} => b[k] = a[k]

\* C22: levenshtein(a, b) is the standard edit distance (insertion, deletion
\* and substitution cost 1 each, a transposition therefore 2); it is 0 exactly
\* when a = b, and levenshtein(a, b) = levenshtein(b, a).
C22_EditDistance ==
    wOut.op = "levenshtein" =>
        /\ wOut.distance = wEditDistance(wA, wB)
        /\ wTransposed(wA, wB) => wOut.distance = 2
        /\ wOut.distance = 0 <=> wA = wB
        /\ wOut.reverse = wOut.distance

\* 'cortado' and 'cortaod': one transposition, distance 2
C22_Witness ==
    /\ wOut.op = "levenshtein"
    /\ wA = <<"c","o","r","t","a","d","o">>
    /\ wB = <<"c","o","r","t","a","o","d">>
    /\ wTransposed(wA, wB)
    /\ wOut.distance = 2

(***************************************************************************)
(* normalizeSpeech on its own (specification SpecSpeech)                   *)
(***************************************************************************)
\* an upper-case letter, a filler word's letters, a digit, both kinds of
\* whitespace, a stripped and a kept punctuation mark
SpeechAlphabet ==
    {"A", "n", "7", " ", "\t", "!", "'"}

MaxSpeechLen ==
    3

RECURSIVE SpeechesUpTo(_)
SpeechesUpTo(n) ==
    IF n = 0 THEN {<<>>}
    ELSE LET shorter == SpeechesUpTo(n - 1)
         IN  shorter \cup {Append(w, c) : w \in shorter, c \in SpeechAlphabet}

LongSpeeches ==
    {<<"U","m",","," ","c","o","l","a"," "," ","c","o","l","a","\t","p","l","e","a","s","e">>,
     <<"I","'","d"," ","l","i","k","e"," ","a"," ","l","a","t","t","e"," ","-"," ","n","o"," ","f","o","a","m">>,
     <<" "," ","T","H","E"," ","L","a","r","g","e","-","i","s","h"," ","#","2"," ","c","o","m","b","o","!","!"," ">>,
     <<"t","o","-","g","o"," ","t","o"," ","g","o">>,
     <<"\t"," ","\t">>,
     <<"a","n"," ","A","N"," ","a","-","n"," ","'","a","n","'">>}

Speeches ==
    SpeechesUpTo(MaxSpeechLen) \cup LongSpeeches \cup Utterances

InitSpeech ==
    /\ pSpeech \in Speeches
    /\ nOut = NoCall
    /\ wA = <<>>
    /\ wB = <<>>
    /\ wOut = NoCall
    /\ fuseScore = <<>>
    /\ pMenu = MenuUndefined
    /\ pOut = NotCalled
    /\ mItem = NoItem
    /\ mTokens = <<>>
    /\ mOut = NotMatched
    /\ matcherCache = <<>>
    /\ upstreamMenu = <<>>
    /\ requests = <<>>
    /\ webhook = [pc |-> "idle"]
    /\ built = 0
    /\ history = NoHistory
    /\ epoch = <<>>

\* this.normalizeSpeech(pSpeech)
NormalizeSpeechCall ==
    /\ nOut = NoCall
    /\ nOut' = [op |-> "normalizeSpeech", tokens |-> normalizeSpeech(pSpeech)]
    /\ UNCHANGED <<fuseScore, matcherCache, upstreamMenu, requests, webhook, built,
                   history, epoch, pMenu, pSpeech, pOut, mItem, mTokens, mOut,
                   wA, wB, wOut>>

NextSpeech ==
    NormalizeSpeechCall

SpecSpeech ==
    InitSpeech /\ [][NextSpeech]_vars

(***************************************************************************)
(* Properties of normalizeSpeech                                           *)
(***************************************************************************)
\* the utterance in lower case without the characters that are stripped
nStripped ==
    SelectSeq(toLowerCase(pSpeech),
              LAMBDA c : c \in Range(LowerCase) \cup Digits \cup Whitespace \cup {"'", "-"})

\* the positions where a word of nStripped begins, and the word beginning there
nStarts ==
    {i \in 1..Len(nStripped) :
        nStripped[i] \notin Whitespace /\ (i = 1 \/ nStripped[i - 1] \in Whitespace)}

nWordAt(i) ==
    LET end == CHOOSE e \in i..Len(nStripped) :
                   /\ \A k \in i..e : nStripped[k] \notin Whitespace
                   /\ (e = Len(nStripped) \/ nStripped[e + 1] \in Whitespace)
    IN  SubSeq(nStripped, i, end)

\* the starts of the words that are not filler words, and the p-th of them
nKeptStarts ==
    {i \in nStarts : nWordAt(i) \notin FILLER_WORDS}

nKeptStart(p) ==
    CHOOSE i \in nKeptStarts : Cardinality({j \in nKeptStarts : j < i}) = p - 1

\* C23: normalizeSpeech returns exactly the non-empty words of the lowercased,
\* stripped, whitespace-collapsed utterance that are not filler words, in
\* their original order, repeated words kept; no token is empty, contains
\* white space or is a filler word.
C23_NormalizeSpeech ==
    nOut.op = "normalizeSpeech" =>
        /\ Len(nOut.tokens) = Cardinality(nKeptStarts)
        /\ \A p \in 1..Len(nOut.tokens) :
               /\ nOut.tokens[p] = nWordAt(nKeptStart(p))
               /\ nOut.tokens[p] # <<>>
               /\ \A k \in 1..Len(nOut.tokens[p]) : nOut.tokens[p][k] \notin Whitespace
               /\ nOut.tokens[p] \notin FILLER_WORDS

\* 'Um, cola  cola<TAB>please': the fillers go, the repeated word stays twice
C23_Witness ==
    /\ nOut.op = "normalizeSpeech"
    /\ pSpeech = <<"U","m",","," ","c","o","l","a"," "," ","c","o","l","a","\t","p","l","e","a","s","e">>
    /\ nOut.tokens = <<<<"c","o","l","a">>, <<"c","o","l","a">>>>

(***************************************************************************)
(* Frame properties of the matcher cache (specification SpecCache)         *)
(***************************************************************************)
\* C24: clearCache(key) with a key, the empty string included, removes the
\* cached index of that key only and leaves every other key's index as it
\* was; clearCache() without a key removes the indices of all keys.
C24_ClearOneKey ==
    [][history'.op = "clearCache" =>
           IF history'.hasKey
           THEN /\ DOMAIN matcherCache' = DOMAIN matcherCache \ {history'.key}
                /\ \A k \in DOMAIN matcherCache' : matcherCache'[k] = matcherCache[k]
           ELSE DOMAIN matcherCache' = {}]_vars

(***************************************************************************)
(* getOrCreate, parseOrder and clearCache as separate calls                *)
(* (specification SpecCalls)                                               *)
(***************************************************************************)
\* one caller: requests[1] is the matcher reference it holds between its calls
CallerIdle ==
    [pc |-> "idle"]

CallSpeeches ==
    {<<"C","o","l","a","!">>, <<"u","m">>, <<>>}

InitCalls ==
    /\ fuseScore \in OraclesFor(CacheMenus, CallSpeeches)
    /\ matcherCache = <<>>
    /\ requests = <<CallerIdle>>
    /\ built = 0
    /\ history = NoHistory
    /\ epoch = <<>>
    /\ upstreamMenu = <<>>
    /\ webhook = [pc |-> "idle"]
    /\ pMenu = MenuUndefined
    /\ pSpeech = <<>>
    /\ pOut = NotCalled
    /\ mItem = NoItem
    /\ mTokens = <<>>
    /\ mOut = NotMatched
    /\ wA = <<>>
    /\ wB = <<>>
    /\ wOut = NoCall
    /\ nOut = NoCall

\* const matcher = FuzzyMenuMatcher.getOrCreate(phoneNumber, menu)
GetOrCreateCall(phoneNumber, menu) ==
    LET got == getOrCreate(matcherCache, phoneNumber, menu, built + 1)
    IN  /\ requests[1].pc = "idle"
        /\ got.hit \/ built < MaxBuilt
        /\ matcherCache' = got.cache
        /\ built' = IF ~got.hit /\ ~got.threw THEN built + 1 ELSE built
        /\ requests' = IF got.threw THEN requests
                       ELSE <<[pc |-> "holds", matcher |-> got.matcher]>>
        /\ history' = [NoHistory EXCEPT !.op = "getOrCreate", !.key = phoneNumber,
                                        !.hasKey = TRUE, !.menu = menu, !.hit = got.hit]
        /\ UNCHANGED <<fuseScore, upstreamMenu, webhook, epoch, pMenu, pSpeech, pOut,
                       mItem, mTokens, mOut, wA, wB, wOut, nOut>>

\* matcher.parseOrder(speech) on the reference held; the matcher in the cache
\* is the same object when it has the same identity
ParseOrderOnHeld(speech) ==
    LET matcher == requests[1].matcher
        after == matcherAfterParseOrder(matcher, speech)
    IN  /\ requests[1].pc = "holds"
        /\ matcherCache' = [k \in DOMAIN matcherCache |->
                               IF matcherCache[k].id = matcher.id
                               THEN after ELSE matcherCache[k]]
        /\ requests' = <<[pc |-> "parsed", matcher |-> after]>>
        /\ history' = [NoHistory EXCEPT !.op = "parseOrder", !.speech = speech,
                                        !.matcherId = matcher.id,
                                        !.result = parseOrder(matcher, speech)]
        /\ UNCHANGED <<fuseScore, upstreamMenu, webhook, built, epoch, pMenu, pSpeech, pOut,
                       mItem, mTokens, mOut, wA, wB, wOut, nOut>>

\* the caller drops its reference
ReleaseMatcher ==
    /\ requests[1].pc = "parsed"
    /\ requests' = <<CallerIdle>>
    /\ history' = [NoHistory EXCEPT !.op = "release"]
    /\ UNCHANGED <<fuseScore, matcherCache, upstreamMenu, webhook, built, epoch,
                   pMenu, pSpeech, pOut, mItem, mTokens, mOut, wA, wB, wOut, nOut>>

\* FuzzyMenuMatcher.clearCache(phoneNumber?), at any point between the calls
ClearCacheBetween(hasArg, phoneNumber) ==
    /\ matcherCache' = clearCache(matcherCache, hasArg, phoneNumber)
    /\ history' = [NoHistory EXCEPT !.op = "clearCache", !.key = phoneNumber,
                                    !.hasKey = hasArg]
    /\ UNCHANGED <<fuseScore, upstreamMenu, requests, webhook, built, epoch,
                   pMenu, pSpeech, pOut, mItem, mTokens, mOut, wA, wB, wOut, nOut>>

NextCalls ==
    \/ \E k \in Keys, menu \in CacheMenus : GetOrCreateCall(k, menu)
    \/ \E speech \in CallSpeeches : ParseOrderOnHeld(speech)
    \/ ReleaseMatcher
    \/ \E hasArg \in BOOLEAN, k \in Keys : ClearCacheBetween(hasArg, k)

SpecCalls ==
    InitCalls /\ [][NextCalls]_vars

C26_WebhookClears ==
    (history.op = "webhook" /\ history.hit) => history.afterClear

(***************************************************************************)
(* Shape of the parseOrder result (specification SpecParse)                *)
(***************************************************************************)
\* C27: every result of parseOrder is well formed: success is true exactly
\* when match is not null and exactly when there is no error field; a failure
\* carries a non-empty error string and an alternativeMatches list, which may
\* be empty.
C27_WellFormed ==
    pReturned =>
        /\ Len(pResult.match) <= 1
        /\ Len(pResult.error) <= 1
        /\ pResult.success <=> pResult.match # <<>>
        /\ pResult.success <=> pResult.error = <<>>
        /\ ~pResult.success =>
               /\ pResult.error[1] # ""
               /\ DOMAIN pResult.alternativeMatches = 1..Len(pResult.alternativeMatches)

\* a failure without alternatives on a menu that has items
C27_Witness ==
    /\ pReturned
    /\ pMenu = MenuDrinks
    /\ pTokens # <<>>
    /\ ~pResult.success
    /\ pResult.match = <<>>
    /\ pResult.alternativeMatches = <<>>
    /\ pResult.error = <<ERR_NONE>>

(***************************************************************************)
(* Further properties of matchModifiers (specification SpecModifiers)      *)
(***************************************************************************)
\* C28: for every item and every list of remaining tokens, lists that repeat
\* a word included, no (groupName, optionName) pair occurs more than once in
\* the matchedModifiers returned, so that no option is priced twice.
C28_NoOptionTwice ==
    mOut.done =>
        \A i, j \in 1..Len(mOut.matched) :
            (/\ mOut.matched[i].groupName = mOut.matched[j].groupName
             /\ mOut.matched[i].optionName = mOut.matched[j].optionName) => i = j

(***************************************************************************)
(* Confidence of the alternatives (specification SpecParse)                *)
(***************************************************************************)
\* C29: on a successful result every entry of alternativeMatches has a
\* confidence less than or equal to the confidence of the match, in phase 1
\* and in phase 2 (where the match uses the length-adjusted score and the
\* alternatives the raw scores).
C29_AlternativesNotAbove ==
    (pReturned /\ pResult.success) =>
        \A i \in 1..Len(pResult.alternativeMatches) :
            pResult.alternativeMatches[i].confidence <= pResult.match[1].confidence

\* a sub-phrase match with an alternative of lower confidence
C29_Witness ==
    /\ pReturned
    /\ pResult.success
    /\ pOut.run.phase = 2
    /\ pResult.alternativeMatches # <<>>
    /\ pResult.alternativeMatches[1].confidence < pResult.match[1].confidence

(***************************************************************************)
(* matchModifiers on an item with two groups of one name                   *)
(* (specification SpecGroups)                                              *)
(***************************************************************************)
FirstSideGroup ==
    Group("Side", TRUE, FALSE,
          <<Option(<<"F","r","i","e","s">>, 0, TRUE), Option(<<"S","a","l","a","d">>, 1500, FALSE)>>)

SecondSideGroup ==
    Group("Side", TRUE, FALSE,
          <<Option(<<"S","o","u","p">>, 0, TRUE), Option(<<"R","i","c","e">>, 500, FALSE)>>)

Combo ==
    RawItem("Combo", 12990, FALSE, "", TRUE, <<FirstSideGroup, SecondSideGroup>>)

MenuCombo ==
    Menu(<<Category("Meals", TRUE, <<Combo>>)>>)

SideWords ==
    {<<"f","r","i","e","s">>, <<"s","a","l","a","d">>, <<"s","o","u","p">>, <<"r","i","c","e">>}

SideTokenLists ==
    UNION {[1..n -> SideWords] : n \in 0..MaxModifierTokens}

InitGroups ==
    /\ mItem = flattenMenu(MenuCombo).items[1]
    /\ mTokens \in SideTokenLists
    /\ mOut = NotMatched
    /\ wA = <<>>
    /\ wB = <<>>
    /\ wOut = NoCall
    /\ nOut = NoCall
    /\ fuseScore = <<>>
    /\ matcherCache = <<>>
    /\ upstreamMenu = <<>>
    /\ requests = <<>>
    /\ webhook = [pc |-> "idle"]
    /\ built = 0
    /\ history = NoHistory
    /\ epoch = <<>>
    /\ pMenu = MenuUndefined
    /\ pSpeech = <<>>
    /\ pOut = NotCalled

SpecGroups ==
    InitGroups /\ [][NextModifiers]_vars

\* group number g of the item has an option among the matched modifiers
mGroupMatched(g) ==
    LET grp == mItem.modifiers[g]
    IN  \E i \in 1..Len(mOut.matched) :
            /\ mOut.matched[i].groupName = grp.name
            /\ \E q \in 1..Len(grp.options) :
                   grp.options[q].name = mOut.matched[i].optionName

\* the window shares no token with an accepted window
mUnconsumed(w) ==
    \A a \in mAccepted : ~mOverlap(a, w)

\* C30: accepting an option of one modifier group never prevents a window from
\* being matched to an option of a different group of the item, also when the
\* two groups have the same name: a window of unconsumed tokens that names an
\* option is left unmatched only if the option's own group has a match.
C30_OtherGroupsOpen ==
    mOut.done =>
        \A g \in 1..Len(mItem.modifiers), w \in mWindows :
            (/\ mUnconsumed(w)
             /\ \E q \in 1..Len(mItem.modifiers[g].options) :
                    mNames(w, mItem.modifiers[g].options[q]))
                => mGroupMatched(g)

====
